---- MODULE Spec2Model ----
(***************************************************************************)
(* Agricheck backend: the account store, the password-reset flows and the   *)
(* scan store with its upload directory, admission gate and classifier.    *)
(*                                                                         *)
(* Time is counted in minutes.  A handler reads the clock once: the two    *)
(* clock reads of one request fall on the same instant.  A signed token    *)
(* is a record of its payload and of the key that signed it; HS256 is      *)
(* deterministic, so equal payloads signed with one key are equal tokens.  *)
(* A nullable column is <<>> (NULL) or <<v>>.  Strings the code trims,     *)
(* measures or lower-cases are sequences of one-character strings.         *)
(* A confidence is counted in thousandths of a percent, a sharpness score  *)
(* in tenths, a pixel fraction in thousandths.  uuid4 draws fresh values:  *)
(* the n-th draw is n.                                                      *)
(***************************************************************************)
EXTENDS Integers, Sequences, FiniteSets, TLC

VARIABLES users, now, last, redeemed, scans, uploads, model_service, uuids, issued, pwhist, procs

(* the scan store, the files of the upload directory, the global model service
   instance and the number of uuid4 draws so far *)
scanvars == <<scans, uploads, model_service, uuids>>

(* issued collects the (email, token) pairs Verify handed out in the recorded flow;
   pwhist is the secret the recorded account's hash was computed from and, once a
   Redeem succeeded, the secret before it; procs holds the requests that are being
   handled concurrently, each with its own database session *)
flowvars == <<issued, pwhist, procs>>

vars == <<users, now, last, redeemed, scans, uploads, model_service, uuids, issued, pwhist, procs>>

----------------------------------------------------------------------------
(* Bounds of the model *)

MaxTime == 45

TickStep == 20

NumSalts == 2

(* Constants of the program *)

VerifyTokenMinutes == 30

ForgotTokenMinutes == 60

ACCESS_TOKEN_EXPIRE_MINUTES == 60

MinPasswordLen == 8

BcryptMaxBytes == 72

SECRET_KEY == "SECRET_KEY"

ALGORITHM == "HS256"

----------------------------------------------------------------------------
(* Nullable values and Python truthiness *)

Null == <<>>

Some(v) == <<v>>

Rep(c, n) == [i \in 1..n |-> c]

Whitespace == {" ", "\t"}

RECURSIVE lstrip(_)
lstrip(s) == IF s # <<>> /\ Head(s) \in Whitespace THEN lstrip(Tail(s)) ELSE s

RECURSIVE rstrip(_)
rstrip(s) ==
    IF s # <<>> /\ s[Len(s)] \in Whitespace THEN rstrip(SubSeq(s, 1, Len(s) - 1)) ELSE s

strip(s) == rstrip(lstrip(s))

UpperToLower == [B |-> "b", L |-> "l", U |-> "u", E |-> "e"]

lower(s) == [i \in 1..Len(s) |-> IF s[i] \in DOMAIN UpperToLower THEN UpperToLower[s[i]] ELSE s[i]]

(* faulty variant: only NULL counts as missing *)
FalsyNullOnly(col) == col = Null

(* `not col` for a nullable text column: NULL or the empty string *)
Falsy(col) == col = Null \/ col[1] = <<>>

----------------------------------------------------------------------------
(* app/core/security.py *)

Salts == 1..NumSalts

(* faulty variant: nothing is cut *)
_truncate_password_off(password) == password

_truncate_password(password) ==
    IF Len(password) > BcryptMaxBytes THEN SubSeq(password, 1, BcryptMaxBytes) ELSE password

(* faulty variant: the secret is trimmed before it is hashed *)
hash_password_trimmed(password, salt) == [secret |-> _truncate_password(strip(password)), salt |-> salt]

hash_password(password, salt) == [secret |-> _truncate_password(password), salt |-> salt]

verify_password(password, hashed) == _truncate_password(password) = hashed.secret

(* faulty variant: the answer is trimmed but keeps its case *)
hash_security_answer_cased(answer, salt) == hash_password(strip(answer), salt)

hash_security_answer(answer, salt) == hash_password(strip(lower(answer)), salt)

(* faulty variant: every answer is taken for the stored one *)
verify_security_answer_any(answer, hashed) == TRUE

verify_security_answer(answer, hashed) == verify_password(strip(lower(answer)), hashed)

jwt_encode(payload, key) == [kind |-> "jwt", alg |-> ALGORITHM, payload |-> payload, key |-> key]

(* jwt.decode: JWTError on a malformed token, a bad signature or exp < now *)
jwt_decode(token, key, t) ==
    IF token.kind # "jwt" THEN [ok |-> FALSE, error |-> "malformed"]
    ELSE IF token.key # key \/ token.alg # ALGORITHM THEN [ok |-> FALSE, error |-> "signature"]
    ELSE IF token.payload.exp < t THEN [ok |-> FALSE, error |-> "expired"]
    ELSE [ok |-> TRUE, payload |-> token.payload]

PayloadGet(payload, field) == IF field \in DOMAIN payload THEN Some(payload[field]) ELSE Null

create_access_token(sub, expires_minutes, t) ==
    LET minutes == IF expires_minutes = Null \/ expires_minutes[1] = 0
                   THEN ACCESS_TOKEN_EXPIRE_MINUTES ELSE expires_minutes[1]
    IN  jwt_encode([sub |-> sub, exp |-> t + minutes], SECRET_KEY)

decode_token(token, t) ==
    LET d == jwt_decode(token, SECRET_KEY, t)
    IN  IF d.ok THEN PayloadGet(d.payload, "sub") ELSE Null

(* faulty variant: the expiry ignores the time to live *)
create_password_reset_token_no_ttl(email, expires_minutes, t) ==
    jwt_encode([sub |-> email, exp |-> t, type |-> "password_reset"], SECRET_KEY)

create_password_reset_token(email, expires_minutes, t) ==
    jwt_encode([sub |-> email, exp |-> t + expires_minutes, type |-> "password_reset"], SECRET_KEY)

(* faulty variant: the purpose tag is not looked at *)
verify_password_reset_token_untyped(token, t) ==
    LET d == jwt_decode(token, SECRET_KEY, t)
    IN  IF ~d.ok THEN Null ELSE PayloadGet(d.payload, "sub")

verify_password_reset_token(token, t) ==
    LET d == jwt_decode(token, SECRET_KEY, t)
    IN  IF ~d.ok THEN Null
        ELSE IF PayloadGet(d.payload, "type") # Some("password_reset") THEN Null
        ELSE PayloadGet(d.payload, "sub")

----------------------------------------------------------------------------
(* app/db/models.py and the SQLAlchemy session *)

Emails == {"ana@x.ph", "ben@x.ph"}

UserId(email) == IF email = "ana@x.ph" THEN "uuid-ana" ELSE "uuid-ben"

User(email, name, password_hash, q1, a1, q2, a2, q3, a3) ==
    [id |-> UserId(email), email |-> email, name |-> name,
     password_hash |-> password_hash, role |-> "user",
     reset_token |-> Null, reset_token_expires |-> Null,
     security_question_1 |-> q1, security_answer_1 |-> a1,
     security_question_2 |-> q2, security_answer_2 |-> a2,
     security_question_3 |-> q3, security_answer_3 |-> a3]

(* db.query(User).filter(User.email == email).first() *)
QueryByEmail(tbl, email) ==
    LET m == {u \in tbl : u.email = email}
    IN  IF m = {} THEN Null ELSE Some(CHOOSE u \in m : TRUE)

(* A session holds the committed table and its pending copy.  Assigning to a
   loaded row changes the pending copy only. *)
SetRow(tbl, old, new) == (tbl \ {old}) \cup {new}

(* db.commit(): the pending copy becomes the committed table, unless it raises *)
Commit(committed, pending, ok) == IF ok THEN pending ELSE committed

(* faulty variant: the pending copy survives the rollback *)
RollbackKeepsPending(committed, pending) == pending

(* db.rollback(): the pending copy is dropped; the committed table is what is left *)
Rollback(committed, pending) == committed

HTTPException(status_code, detail) ==
    Some([kind |-> "HTTPException", status_code |-> status_code, detail |-> detail])

Exception(type, text) == Some([kind |-> "Exception", type |-> type, text |-> text])

(* the exception an injected fault raises *)
ExcType(fault) == IF fault = "hash" THEN "ValueError" ELSE "OperationalError"

ExcText(fault) ==
    IF fault = "hash" THEN "embedded null byte" ELSE "(sqlite3.OperationalError) database is locked"

----------------------------------------------------------------------------
(* app/auth/password_reset.py *)

MsgUserNotFound == "Hindi nahanap ang user. Pakisiguro na tama ang email."

MsgNoQuestion == "Hindi nahanap ang security question. Pakisubukang muli."

MsgBadIndex == "Hindi valid ang question index. Dapat ay 0, 1, o 2."

MsgWrongAnswer == "Maling sagot. Pakisubukang muli."

MsgPasswordEmpty == "Ang password ay hindi dapat walang laman."

MsgPasswordShort == "Ang password ay dapat hindi bababa sa 8 characters."

MsgTokenMismatch ==
    "Hindi valid ang reset token. Pakisubukang muli o mag-verify muli ng security answer."

MsgTokenExpired ==
    "Nag-expire na ang reset token. Pakisubukang muli o mag-verify muli ng security answer."

MsgTokenInvalid == "Hindi valid o nag-expire na ang reset token. Pakisubukang muli."

MsgUpdateFailed == "May problema sa pag-update ng password. Pakisubukang muli."

(* faulty variant: the token is stored, its expiry is not *)
StoreResetTokenOnly(u, reset_token, reset_token_expires) ==
    [u EXCEPT !.reset_token = Some(reset_token)]

(* faulty variant: a token that is already stored is kept *)
StoreResetTokenIfAbsent(u, reset_token, reset_token_expires) ==
    IF u.reset_token # Null THEN u
    ELSE [u EXCEPT !.reset_token = Some(reset_token), !.reset_token_expires = Some(reset_token_expires)]

(* user.reset_token = ...; user.reset_token_expires = ... *)
StoreResetToken(u, reset_token, reset_token_expires) ==
    [u EXCEPT !.reset_token = Some(reset_token), !.reset_token_expires = Some(reset_token_expires)]

(* faulty variant: the token is cleared, its expiry is not *)
ClearResetTokenOnly(u) == [u EXCEPT !.reset_token = Null]

(* user.reset_token = None; user.reset_token_expires = None *)
ClearResetToken(u) == [u EXCEPT !.reset_token = Null, !.reset_token_expires = Null]

(* `not user.reset_token`: NULL or the empty string *)
TokenFalsy(col) == col = Null \/ col[1].kind = "empty"

(* faulty variant: any token is accepted once one is stored *)
TokenMismatchLax(stored, supplied) == TokenFalsy(stored)

(* `not user.reset_token or user.reset_token != reset_token` *)
TokenMismatch(stored, supplied) == TokenFalsy(stored) \/ stored[1] # supplied

(* `expires < now`, a naive timestamp being read as UTC *)
Expired(expires, t) == expires < t

(* `not email_from_token`: None or the empty string *)
SubFalsy(sub) == sub = Null \/ sub[1] = ""

(* `not new_password or not new_password.strip()` *)
PasswordEmpty(new_password) == new_password = <<>> \/ strip(new_password) = <<>>

(* faulty variant: the length is taken before trimming *)
PasswordTooShortUntrimmed(new_password) == Len(new_password) < MinPasswordLen

(* `len(new_password.strip()) < 8` *)
PasswordTooShort(new_password) == Len(strip(new_password)) < MinPasswordLen

get_security_questions_for_user(tbl, email) ==
    LET user == QueryByEmail(tbl, email)
        pick(col, i) == IF user # Null /\ ~Falsy(user[1][col]) THEN <<<<user[1][col][1], i>>>> ELSE <<>>
        pairs == pick("security_question_1", 0) \o pick("security_question_2", 1)
                    \o pick("security_question_3", 2)
    IN  [questions |-> [k \in 1..Len(pairs) |-> pairs[k][1]],
         indices |-> [k \in 1..Len(pairs) |-> pairs[k][2]]]

(* Returns [exc, value, users]: the exception raised (or Null), the token returned,
   and the committed table afterwards. *)
verify_user_security_answer(tbl, t, email, question_index, answer, fault) ==
    LET user == QueryByEmail(tbl, email)
        raise(e) == [exc |-> e, value |-> Null, users |-> tbl]
        issue(u) ==
            LET reset_token == create_password_reset_token(email, VerifyTokenMinutes, t)
                reset_token_expires == t + VerifyTokenMinutes
                pending == SetRow(tbl, u, StoreResetToken(u, reset_token, reset_token_expires))
            IN  IF fault = "commit"
                THEN [exc |-> Exception(ExcType(fault), ExcText(fault)), value |-> Null,
                      users |-> Commit(tbl, pending, FALSE)]
                ELSE [exc |-> Null, value |-> Some(reset_token),
                      users |-> Commit(tbl, pending, TRUE)]
        check(u, q, a) ==
            IF Falsy(u[q]) \/ Falsy(u[a]) THEN raise(HTTPException(400, MsgNoQuestion))
            ELSE IF ~verify_security_answer(answer, u[a][1]) THEN raise(HTTPException(400, MsgWrongAnswer))
            ELSE issue(u)
    IN  IF user = Null THEN raise(HTTPException(404, MsgUserNotFound))
        ELSE IF question_index = 0 THEN check(user[1], "security_question_1", "security_answer_1")
        ELSE IF question_index = 1 THEN check(user[1], "security_question_2", "security_answer_2")
        ELSE IF question_index = 2 THEN check(user[1], "security_question_3", "security_answer_3")
        ELSE raise(HTTPException(400, MsgBadIndex))

(* Returns [exc, users]. *)
reset_user_password(tbl, t, email, reset_token, new_password, salt, fault) ==
    LET user == QueryByEmail(tbl, email)
        raise(e) == [exc |-> e, users |-> tbl]
        email_from_token == verify_password_reset_token(reset_token, t)
        update(u) ==
            LET u2 == [ClearResetToken(u) EXCEPT !.password_hash = hash_password(new_password, salt)]
                pending == SetRow(tbl, u, u2)
                on_error(committed, dirty) ==
                    [exc |-> HTTPException(500, MsgUpdateFailed), users |-> Rollback(committed, dirty)]
            IN  IF fault = "hash" THEN on_error(tbl, tbl)
                ELSE IF fault = "commit" THEN on_error(Commit(tbl, pending, FALSE), pending)
                ELSE IF fault = "refresh" THEN on_error(Commit(tbl, pending, TRUE), pending)
                ELSE [exc |-> Null, users |-> Commit(tbl, pending, TRUE)]
    IN  IF PasswordEmpty(new_password)
            THEN raise(HTTPException(400, MsgPasswordEmpty))
        ELSE IF PasswordTooShort(new_password)
            THEN raise(HTTPException(400, MsgPasswordShort))
        ELSE IF user = Null THEN raise(HTTPException(404, MsgUserNotFound))
        ELSE IF TokenMismatch(user[1].reset_token, reset_token)
            THEN raise(HTTPException(400, MsgTokenMismatch))
        ELSE IF user[1].reset_token_expires = Null
            THEN raise(HTTPException(400, MsgTokenExpired))
        ELSE IF Expired(user[1].reset_token_expires[1], t)
            THEN raise(HTTPException(400, MsgTokenExpired))
        ELSE IF SubFalsy(email_from_token) \/ email_from_token[1] # email
            THEN raise(HTTPException(400, MsgTokenInvalid))
        ELSE update(user[1])

----------------------------------------------------------------------------
(* app/auth/schemas.py and app/auth/routes.py *)

MsgValidation == "Unprocessable Entity"

MsgServerError == "Internal Server Error"

MsgEmailTaken == "Ang email na ito ay nakarehistro na. Pakigamit ang ibang email."

MsgBadLogin == "Maling email o password. Pakisubukang muli."

MsgForgot == "If an account with that email exists, a password reset token has been generated."

MsgResetDone == "Password has been reset successfully"

MsgPlainTokenMismatch == "Hindi valid ang reset token. Pakisubukang muli."

MsgPlainTokenExpired == "Nag-expire na ang reset token. Pakisubukang muli."

MsgDiscover == "If an account with that email exists, security questions are provided."

MsgVerified == "Matagumpay na na-verify ang sagot!"

MsgVerifyFailed == "May problema sa pag-verify ng sagot. Pakisubukang muli."

MsgRedeemed == "Matagumpay na na-reset ang password!"

MsgDatabase == "May problema sa database. Pakisubukang muli."

MsgResetFailed == "May problema sa pag-reset ng password. Pakisubukang muli."

(* faulty variant: the two reset-token functions are imported as well *)
RoutesNamesWithResetTokens ==
    {"hash_password", "verify_password", "create_access_token", "hash_security_answer",
     "create_password_reset_token", "verify_password_reset_token",
     "get_security_questions_for_user", "verify_user_security_answer", "reset_user_password",
     "User", "get_db", "HTTPException", "status", "datetime", "timedelta", "timezone", "logger"}

(* the names app/auth/routes.py binds: its imports and its own definitions *)
RoutesNames ==
    {"hash_password", "verify_password", "create_access_token", "hash_security_answer",
     "get_security_questions_for_user", "verify_user_security_answer", "reset_user_password",
     "User", "get_db", "HTTPException", "status", "datetime", "timedelta", "timezone", "logger"}

EmptyToken == [kind |-> "empty"]

Response(status_code, detail, token, questions, indices) ==
    [status |-> status_code, detail |-> detail, token |-> token,
     questions |-> questions, indices |-> indices]

Reply(status_code, detail) == Response(status_code, detail, Null, <<>>, <<>>)

(* an exception no handler catches: the framework answers 500 *)
Unhandled == Reply(500, MsgServerError)

Blank(s) == s = <<>> \/ strip(s) = <<>>

(* RegisterIn: the validators reject a blank question or answer and strip the rest *)
RegisterIn(payload) ==
    LET qs == {"security_question_1", "security_question_2", "security_question_3"}
        as == {"security_answer_1", "security_answer_2", "security_answer_3"}
    IN  IF \E f \in qs \cup as : Blank(payload[f]) THEN Null
        ELSE Some([f \in DOMAIN payload |->
                     IF f \in qs \cup as THEN strip(payload[f]) ELSE payload[f]])

(* Returns [resp, users]. *)
register(tbl, raw, salts) ==
    LET parsed == RegisterIn(raw)
        payload == parsed[1]
        user == User(payload.email, payload.name, hash_password(payload.password, salts[1]),
                     Some(payload.security_question_1),
                     Some(hash_security_answer(payload.security_answer_1, salts[2])),
                     Some(payload.security_question_2),
                     Some(hash_security_answer(payload.security_answer_2, salts[3])),
                     Some(payload.security_question_3),
                     Some(hash_security_answer(payload.security_answer_3, salts[4])))
    IN  IF parsed = Null THEN [resp |-> Reply(422, MsgValidation), users |-> tbl]
        ELSE IF \E f \in {"security_question_1", "security_question_2", "security_question_3",
                          "security_answer_1", "security_answer_2", "security_answer_3"} :
                    Blank(payload[f])
            THEN [resp |-> Reply(400, "Pakipili ang Security Question / Pakilagay ang sagot."), users |-> tbl]
        ELSE IF QueryByEmail(tbl, payload.email) # Null
            THEN [resp |-> Reply(400, MsgEmailTaken), users |-> tbl]
        ELSE [resp |-> Reply(201, user.id), users |-> Commit(tbl, tbl \cup {user}, TRUE)]

login(tbl, t, email, password) ==
    LET user == QueryByEmail(tbl, email)
    IN  IF user = Null \/ ~verify_password(password, user[1].password_hash)
        THEN Reply(401, MsgBadLogin)
        ELSE Response(200, "bearer", Some(create_access_token(user[1].id, Null, t)), <<>>, <<>>)

(* Returns [resp, users].  create_password_reset_token is not among the names the
   module binds, so the call raises NameError once a user was found. *)
forgot_password(tbl, t, email) ==
    LET user == QueryByEmail(tbl, email)
        reset_token == create_password_reset_token(email, ForgotTokenMinutes, t)
        reset_token_expires == t + ForgotTokenMinutes
        pending == SetRow(tbl, user[1], StoreResetToken(user[1], reset_token, reset_token_expires))
    IN  IF user = Null
        THEN [resp |-> Response(200, MsgForgot, Some(EmptyToken), <<>>, <<>>), users |-> tbl]
        ELSE IF "create_password_reset_token" \notin RoutesNames
        THEN [resp |-> Unhandled, users |-> tbl]
        ELSE [resp |-> Response(200, MsgForgot, Some(reset_token), <<>>, <<>>),
              users |-> Commit(tbl, pending, TRUE)]

(* Returns [resp, users].  verify_password_reset_token is not among the names the
   module binds, so the first statement raises NameError. *)
reset_password(tbl, t, token, new_password, salt) ==
    LET email == verify_password_reset_token(token, t)
        user == QueryByEmail(tbl, email[1])
        fail(code, msg) == [resp |-> Reply(code, msg), users |-> tbl]
        pending == SetRow(tbl, user[1],
                          [ClearResetToken(user[1]) EXCEPT !.password_hash = hash_password(new_password, salt)])
    IN  IF "verify_password_reset_token" \notin RoutesNames THEN [resp |-> Unhandled, users |-> tbl]
        ELSE IF SubFalsy(email) THEN fail(400, MsgTokenInvalid)
        ELSE IF user = Null THEN fail(404, MsgUserNotFound)
        ELSE IF user[1].reset_token # Some(token) THEN fail(400, MsgPlainTokenMismatch)
        ELSE IF user[1].reset_token_expires = Null THEN fail(400, MsgPlainTokenExpired)
        ELSE IF Expired(user[1].reset_token_expires[1], t) THEN fail(400, MsgPlainTokenExpired)
        ELSE [resp |-> Reply(200, MsgResetDone), users |-> Commit(tbl, pending, TRUE)]

forgot_password_security_questions(tbl, email) ==
    LET r == get_security_questions_for_user(tbl, email)
    IN  Response(200, MsgDiscover, Null, r.questions, r.indices)

(* faulty variant: a refused request clears the stored token *)
verify_security_answer_endpoint_clearing(tbl, t, email, question_index, answer, fault) ==
    LET r == verify_user_security_answer(tbl, t, email, question_index, answer, fault)
        user == QueryByEmail(tbl, email)
        cleared == IF user = Null THEN tbl ELSE SetRow(tbl, user[1], ClearResetToken(user[1]))
    IN  IF r.exc = Null
        THEN [resp |-> Response(200, MsgVerified, r.value, <<>>, <<>>), users |-> r.users]
        ELSE IF r.exc[1].kind = "HTTPException"
        THEN [resp |-> Reply(r.exc[1].status_code, r.exc[1].detail), users |-> cleared]
        ELSE [resp |-> Reply(500, MsgVerifyFailed), users |-> r.users]

(* Returns [resp, users]. *)
verify_security_answer_endpoint(tbl, t, email, question_index, answer, fault) ==
    LET r == verify_user_security_answer(tbl, t, email, question_index, answer, fault)
    IN  IF r.exc = Null
        THEN [resp |-> Response(200, MsgVerified, r.value, <<>>, <<>>), users |-> r.users]
        ELSE IF r.exc[1].kind = "HTTPException"
        THEN [resp |-> Reply(r.exc[1].status_code, r.exc[1].detail), users |-> r.users]
        ELSE [resp |-> Reply(500, MsgVerifyFailed), users |-> r.users]

(* Returns [resp, users]. *)
reset_password_security_questions(tbl, t, email, reset_token, new_password, salt, fault) ==
    LET r == reset_user_password(tbl, t, email, reset_token, new_password, salt, fault)
        e == r.exc[1]
        error_detail == IF e.text # "" THEN e.text ELSE MsgResetFailed
    IN  IF r.exc = Null THEN [resp |-> Reply(200, MsgRedeemed), users |-> r.users]
        ELSE IF e.kind = "HTTPException"
        THEN [resp |-> Reply(e.status_code, e.detail), users |-> r.users]
        ELSE IF e.type \in {"IntegrityError", "OperationalError"}
        THEN [resp |-> Reply(500, MsgDatabase), users |-> r.users]
        ELSE [resp |-> Reply(500, error_detail), users |-> r.users]

----------------------------------------------------------------------------
(* Requests the clients send *)

QPet == <<"p", "e", "t">>

QCity == <<"c", "i", "t", "y">>

QFood == <<"f", "o", "o", "d">>

AnsBlue == <<"b", "l", "u", "e">>

AnsBlueCased == <<" ", "B", "l", "U", "E", " ">>

AnsRed == <<"r", "e", "d">>

Answers == {AnsBlue, AnsBlueCased, AnsRed}

PwOld == Rep("o", MinPasswordLen + 1)

PwPadded == <<" ">> \o Rep("y", MinPasswordLen) \o <<" ">>

PwShortPadded == <<" ">> \o Rep("x", MinPasswordLen - 1) \o <<"\t">>

PwBlank == Rep(" ", MinPasswordLen)

NewPasswords == {<<>>, PwBlank, PwShortPadded, PwPadded}

LoginPasswords == {PwOld, PwPadded}

QuestionIndices == {-1, 0, 1, 2, 3}

VerifyFaults == {"none", "commit"}

RedeemFaults == {"none", "hash", "commit", "refresh"}

RegisterPayload(email, q2, a3) ==
    [email |-> email, password |-> PwOld, name |-> "name",
     security_question_1 |-> QPet \o <<" ">>, security_answer_1 |-> AnsBlueCased,
     security_question_2 |-> q2, security_answer_2 |-> AnsBlue,
     security_question_3 |-> QFood, security_answer_3 |-> a3]

(* rows that predate the security questions: one with no complete pair, one with
   no question at all *)
LegacyUsers ==
    {User("ben@x.ph", "ben", hash_password(PwOld, 1),
          Some(QPet), Null,
          Null, Some(hash_security_answer(AnsBlue, 1)),
          Some(<<>>), Some(hash_security_answer(AnsBlue, 1))),
     User("ben@x.ph", "ben", hash_password(PwOld, 1),
          Null, Null, Some(<<>>), Null, Null, Null)}

Instants == {t \in 0..MaxTime : t % TickStep = 0}

GarbageToken == [kind |-> "garbage"]

ForgedToken(email, t) ==
    jwt_encode([sub |-> email, exp |-> t + VerifyTokenMinutes, type |-> "password_reset"], "attacker-key")

(* the reset tokens Verify may have handed out to a user by now *)
IssuableTokens(email) ==
    {create_password_reset_token(email, VerifyTokenMinutes, t) : t \in {i \in Instants : i <= now}}

StoredTokens == {u.reset_token[1] : u \in {v \in users : v.reset_token # Null}}

(* the tokens a client may present with an email: what is stored, what was redeemed,
   what Verify may have handed out to that user, a fresh token of every other user,
   session tokens, a forgery and junk *)
CandidateTokens(email) ==
    StoredTokens
        \cup {p[2] : p \in redeemed}
        \cup IssuableTokens(email)
        \cup {create_password_reset_token(e, VerifyTokenMinutes, now) : e \in Emails \ {email}}
        \cup {create_access_token(sub, Null, now) : sub \in {email, UserId(email)}}
        \cup {ForgedToken(email, now), EmptyToken, GarbageToken}

(* the requests to Redeem: every token with an acceptable password; the stored tokens
   also under every salt and every fault of the final step (salt and fault are
   consulted only once the token was accepted); every password with a stored token or
   junk (the password is checked before the token is looked at) *)
RedeemInputs(email) ==
    {<<token, PwPadded, 1, "none">> : token \in CandidateTokens(email)}
        \cup {<<token, PwPadded, salt, "none">> : token \in StoredTokens, salt \in Salts}
        \cup {<<token, PwPadded, 1, fault>> : token \in StoredTokens, fault \in RedeemFaults}
        \cup {<<token, pw, 1, "none">> : token \in StoredTokens \cup {GarbageToken}, pw \in NewPasswords}

(* the requests to Verify: every index with every answer, and a failing commit *)
VerifyInputs ==
    {<<i, answer, "none">> : i \in QuestionIndices, answer \in Answers}
        \cup {<<0, AnsBlue, fault>> : fault \in VerifyFaults}

----------------------------------------------------------------------------
(* The state machine: one action per request, and the clock *)

Request(op, email, resp) == [op |-> op, email |-> email, resp |-> resp]

Init ==
    /\ users \in {{u} : u \in LegacyUsers}
    /\ now = 0
    /\ last = Request("start", "", Reply(200, ""))
    /\ redeemed = {}
    /\ scans = {}
    /\ uploads = {}
    /\ model_service = Null
    /\ uuids = 0
    /\ issued = {}
    /\ pwhist = <<>>
    /\ procs = <<>>

Tick ==
    /\ now + TickStep <= MaxTime
    /\ now' = now + TickStep
    /\ last' = Request("tick", "", Reply(200, ""))
    /\ UNCHANGED <<users, redeemed>>
    /\ UNCHANGED scanvars
    /\ UNCHANGED flowvars

Register(email, q2, a3, salt) ==
    LET r == register(users, RegisterPayload(email, q2, a3), <<salt, salt, salt, salt>>)
    IN  /\ users' = r.users
        /\ last' = Request("register", email, r.resp)
        /\ UNCHANGED <<now, redeemed>>
        /\ UNCHANGED scanvars
        /\ UNCHANGED flowvars

Login(email, password) ==
    /\ last' = Request("login", email, login(users, now, email, password))
    /\ UNCHANGED <<users, now, redeemed>>
    /\ UNCHANGED scanvars
    /\ UNCHANGED flowvars

ForgotPassword(email) ==
    LET r == forgot_password(users, now, email)
    IN  /\ users' = r.users
        /\ last' = Request("forgot_password", email, r.resp)
        /\ UNCHANGED <<now, redeemed>>
        /\ UNCHANGED scanvars
        /\ UNCHANGED flowvars

ResetPassword(token, new_password, salt) ==
    LET r == reset_password(users, now, token, new_password, salt)
    IN  /\ users' = r.users
        /\ last' = Request("reset_password", "", r.resp)
        /\ UNCHANGED <<now, redeemed>>
        /\ UNCHANGED scanvars
        /\ UNCHANGED flowvars

Discover(email) ==
    /\ last' = Request("discover", email, forgot_password_security_questions(users, email))
    /\ UNCHANGED <<users, now, redeemed>>
    /\ UNCHANGED scanvars
    /\ UNCHANGED flowvars

Verify(email, question_index, answer, fault) ==
    LET r == verify_security_answer_endpoint(users, now, email, question_index, answer, fault)
    IN  /\ users' = r.users
        /\ last' = Request("verify", email, r.resp)
        /\ UNCHANGED <<now, redeemed>>
        /\ UNCHANGED scanvars
        /\ UNCHANGED flowvars

(* redeemed collects the (email, token) pairs a Redeem request succeeded with *)
Redeem(email, token, new_password, salt, fault) ==
    LET r == reset_password_security_questions(users, now, email, token, new_password, salt, fault)
    IN  /\ users' = r.users
        /\ last' = Request("redeem", email, r.resp)
        /\ redeemed' = IF r.resp.status = 200 THEN redeemed \cup {<<email, token>>} ELSE redeemed
        /\ UNCHANGED now
        /\ UNCHANGED scanvars
        /\ UNCHANGED flowvars

Next ==
    \/ Tick
    \/ \E email \in Emails, q2 \in {QCity, <<" ">>}, a3 \in {AnsBlue, <<>>} :
            Register(email, q2, a3, 1)
    \/ \E email \in Emails, password \in LoginPasswords : Login(email, password)
    \/ \E email \in Emails : ForgotPassword(email)
    \/ \E token \in StoredTokens \cup {GarbageToken} : ResetPassword(token, PwPadded, 1)
    \/ \E email \in Emails : Discover(email)
    \/ \E email \in Emails, in \in VerifyInputs : Verify(email, in[1], in[2], in[3])
    \/ \E email \in Emails : \E in \in RedeemInputs(email) : Redeem(email, in[1], in[2], in[3], in[4])

Spec == Init /\ [][Next]_vars

----------------------------------------------------------------------------
(* Properties of the reset flow *)

RowOf(tbl, email) == QueryByEmail(tbl, email)[1]

HasRow(tbl, email) == QueryByEmail(tbl, email) # Null

RedeemOf(email, in) ==
    reset_password_security_questions(users, now, email, in[1], in[2], in[3], in[4])

(* the password is not empty and has MinPasswordLen characters between its first and
   its last non-blank character *)
AcceptablePassword(pw) ==
    LET solid == {i \in 1..Len(pw) : pw[i] \notin Whitespace}
    IN  /\ solid # {}
        /\ \E i \in solid, j \in solid :
              /\ \A k \in solid : i <= k /\ k <= j
              /\ j - i + 1 >= MinPasswordLen

(* C1: once a Redeem request of a user has succeeded with a token, every later Redeem
   request of that user with the same token is answered 400 and changes nothing. *)
C1_SingleUse ==
    \A p \in redeemed : \A pw \in NewPasswords, salt \in Salts, fault \in RedeemFaults :
        LET r == RedeemOf(p[1], <<p[2], pw, salt, fault>>)
        IN  r.resp.status = 400 /\ r.users = users

(* the token is signed by the server, carries the purpose tag, names the email and
   has not passed its own expiry *)
SignedResetTokenFor(token, email, t) ==
    /\ token.kind = "jwt"
    /\ token.key = SECRET_KEY
    /\ "type" \in DOMAIN token.payload
    /\ token.payload.type = "password_reset"
    /\ token.payload.sub = email
    /\ token.payload.exp >= t

(* the three conditions of C2 for the row u *)
RedeemGuard(u, email, token) ==
    /\ u.reset_token # Null
    /\ u.reset_token[1] # EmptyToken
    /\ u.reset_token[1] = token
    /\ u.reset_token_expires # Null
    /\ u.reset_token_expires[1] >= now
    /\ SignedResetTokenFor(token, email, now)

(* C2: for a user that has a row, Redeem changes the password hash only if the token
   equals the non-empty stored token, a stored expiry exists and is not in the past,
   and the token verifies on its own with the request email as subject; when one of
   the three fails the answer is 400 and nothing changes.  Every candidate token is
   tried with every password, and with the acceptable password under every salt and
   every failure of the final step. *)
C2_RedeemOnlyWithAllChecks ==
    \A email \in {e \in Emails : HasRow(users, e)} : \A token \in CandidateTokens(email) :
        \A body \in {<<pw, 1, "none">> : pw \in NewPasswords}
                        \cup {<<PwPadded, salt, fault>> : salt \in Salts, fault \in RedeemFaults} :
            LET r == RedeemOf(email, <<token, body[1], body[2], body[3]>>)
                u == RowOf(users, email)
            IN  /\ RowOf(r.users, email).password_hash # u.password_hash
                    => RedeemGuard(u, email, token)
                /\ ~RedeemGuard(u, email, token) => (r.resp.status = 400 /\ r.users = users)

C2_Witness ==
    /\ last.op = "redeem"
    /\ last.resp.status = 200
    /\ \E p \in redeemed : p[1] = last.email /\ RowOf(users, last.email).reset_token = Null

(* C3: a token Verify issued at t0 with a time to live of VerifyTokenMinutes, when
   presented to Redeem later than t0 + VerifyTokenMinutes, is answered 400 and leaves
   the row unchanged; presented before that instant, while it is the stored token,
   with an acceptable password and no persistence failure, it is answered 200 and the
   row holds the hash of the new password. *)
C3_TokenExpiry ==
    \A email \in Emails : \A t0 \in {i \in Instants : i <= now} :
        \A pw \in NewPasswords, salt \in Salts, fault \in RedeemFaults :
            LET token == create_password_reset_token(email, VerifyTokenMinutes, t0)
                r == RedeemOf(email, <<token, pw, salt, fault>>)
            IN  HasRow(users, email) =>
                  /\ now > t0 + VerifyTokenMinutes => (r.resp.status = 400 /\ r.users = users)
                  /\ ( /\ now < t0 + VerifyTokenMinutes
                       /\ RowOf(users, email).reset_token = Some(token)
                       /\ AcceptablePassword(pw)
                       /\ fault = "none" )
                     => ( /\ r.resp.status = 200
                          /\ RowOf(r.users, email).password_hash = [secret |-> pw, salt |-> salt] )

(* a Redeem request was refused for an expired token that is still stored *)
C3_Witness ==
    /\ last.op = "redeem"
    /\ last.resp.status = 400
    /\ last.resp.detail = MsgTokenExpired
    /\ RowOf(users, last.email).reset_token # Null
    /\ RowOf(users, last.email).reset_token_expires[1] < now

(* C4: in every row the reset token and its expiry are both present or both absent. *)
C4_TokenAndExpiryTogether ==
    \A u \in users : (u.reset_token = Null) <=> (u.reset_token_expires = Null)

(* a row that held a token has been cleared by a successful Redeem *)
C4_Witness ==
    /\ last.op = "redeem"
    /\ last.resp.status = 200
    /\ RowOf(users, last.email).reset_token = Null
    /\ RowOf(users, last.email).reset_token_expires = Null

(* C5: right after a successful Verify the answer carries a token signed by the
   server, tagged password_reset, naming the request email, expiring
   VerifyTokenMinutes from now, and the row of that email holds that token and an
   expiry VerifyTokenMinutes from now. *)
C5_VerifyIssuesAndStores ==
    (last.op = "verify" /\ last.resp.status = 200) =>
        /\ last.resp.token # Null
        /\ SignedResetTokenFor(last.resp.token[1], last.email, now)
        /\ last.resp.token[1].payload.exp = now + VerifyTokenMinutes
        /\ HasRow(users, last.email)
        /\ RowOf(users, last.email).reset_token = last.resp.token
        /\ RowOf(users, last.email).reset_token_expires = Some(now + VerifyTokenMinutes)

C5_Witness ==
    /\ last.op = "verify"
    /\ last.resp.status = 200
    /\ RowOf(users, last.email).reset_token = last.resp.token

QuestionColumn(i) ==
    IF i = 0 THEN "security_question_1" ELSE IF i = 1 THEN "security_question_2" ELSE "security_question_3"

AnswerColumn(i) ==
    IF i = 0 THEN "security_answer_1" ELSE IF i = 1 THEN "security_answer_2" ELSE "security_answer_3"

(* the row has a non-empty question at index i *)
HasQuestion(u, i) == u[QuestionColumn(i)] # Null /\ u[QuestionColumn(i)][1] # <<>>

(* C6: Verify answers 404 when no row has the email; for a row it answers 400 when the
   index is outside {0,1,2}, when the indexed question or answer hash is missing, or
   when the lower-cased, trimmed answer is not the hashed one; no token is returned. *)
C6_VerifyFailures ==
    \A email \in Emails, i \in QuestionIndices, answer \in Answers, fault \in VerifyFaults :
        LET r == verify_security_answer_endpoint(users, now, email, i, answer, fault)
            u == RowOf(users, email)
        IN  /\ ~HasRow(users, email) => (r.resp.status = 404 /\ r.resp.token = Null)
            /\ ( /\ HasRow(users, email)
                 /\ \/ i \notin {0, 1, 2}
                    \/ ~HasQuestion(u, i)
                    \/ u[AnswerColumn(i)] = Null
                    \/ strip(lower(answer)) # u[AnswerColumn(i)][1].secret )
               => (r.resp.status = 400 /\ r.resp.token = Null)

(* Verify has just refused a wrong answer of a user whose pairs are complete *)
C6_Witness ==
    /\ last.op = "verify"
    /\ last.resp.status = 400
    /\ last.resp.detail = MsgWrongAnswer
    /\ last.resp.token = Null

RegisteredEmails == Emails \ {u.email : u \in LegacyUsers}

(* C7: Discover always answers 200 with the same message; the pairs it returns are,
   in ascending index order, exactly those of the non-empty questions of the row with
   that email, none when there is no row or no question; a registered account gets
   its three questions with the indices 0, 1, 2. *)
C7_DiscoverPairs ==
    last.op = "discover" =>
        LET qs == last.resp.questions
            is == last.resp.indices
            expected == IF HasRow(users, last.email)
                        THEN {<<i, RowOf(users, last.email)[QuestionColumn(i)][1]>> :
                                i \in {j \in {0, 1, 2} : HasQuestion(RowOf(users, last.email), j)}}
                        ELSE {}
        IN  /\ last.resp.status = 200
            /\ last.resp.detail = MsgDiscover
            /\ Len(qs) = Len(is)
            /\ \A k \in 1..Len(is), l \in 1..Len(is) : k < l => is[k] < is[l]
            /\ {<<is[k], qs[k]>> : k \in 1..Len(is)} = expected
            /\ (last.email \in RegisteredEmails /\ HasRow(users, last.email)) => is = <<0, 1, 2>>

(* Discover has just answered for a row that has an empty and a missing question *)
C7_Witness ==
    /\ last.op = "discover"
    /\ HasRow(users, last.email)
    /\ Len(last.resp.indices) = 1
    /\ \E i \in {0, 1, 2} : RowOf(users, last.email)[QuestionColumn(i)] = Some(<<>>)

SessionTokens ==
    {create_access_token(sub, ttl, t0) :
        sub \in Emails \cup {UserId(e) : e \in Emails},
        ttl \in {Null, Some(0), Some(VerifyTokenMinutes)},
        t0 \in {i \in Instants : i <= now}}

(* C8: no session token, whatever its subject and time to live, verifies as a reset
   token, and no Redeem or plain reset-password request carrying one changes a row. *)
C8_SessionTokenIsNoResetToken ==
    \A token \in SessionTokens :
        /\ verify_password_reset_token(token, now) = Null
        /\ \A email \in Emails, pw \in NewPasswords :
              LET r == RedeemOf(email, <<token, pw, 1, "none">>)
              IN  r.users = users /\ r.resp.status # 200
        /\ reset_password(users, now, token, PwPadded, 1).users = users

(* a login has just handed out a session token, while a reset token is stored *)
C8_Witness ==
    /\ last.op = "login"
    /\ last.resp.status = 200
    /\ last.resp.token[1] \in SessionTokens
    /\ RowOf(users, last.email).reset_token # Null

(* the request would change the password if storing it did not fail *)
ReachesFinalStep(email, token, pw, salt) ==
    reset_user_password(users, now, email, token, pw, salt, "none").exc = Null

(* C9: when the hash write or the commit of the final step of Redeem fails, the
   stored password hash, token and expiry are what they were, and the answer is 500
   with the fixed message, which is not the text of the exception; under no fault are
   the token fields cleared without the new hash being stored. *)
C9_FailedUpdateRollsBack ==
    \A email \in Emails : \A token \in StoredTokens, pw \in NewPasswords, salt \in Salts :
        ReachesFinalStep(email, token, pw, salt) =>
            /\ \A fault \in {"hash", "commit"} :
                  LET r == RedeemOf(email, <<token, pw, salt, fault>>)
                  IN  /\ r.users = users
                      /\ r.resp.status = 500
                      /\ r.resp.detail = MsgUpdateFailed
                      /\ r.resp.detail # ExcText(fault)
            /\ \A fault \in RedeemFaults :
                  LET after == RowOf(RedeemOf(email, <<token, pw, salt, fault>>).users, email)
                  IN  after.reset_token = Null =>
                        after.password_hash = [secret |-> pw, salt |-> salt]

(* Redeem has just answered 500 and the token it was given is still stored, unexpired *)
C9_Witness ==
    /\ last.op = "redeem"
    /\ last.resp.status = 500
    /\ last.resp.detail = MsgUpdateFailed
    /\ RowOf(users, last.email).reset_token # Null
    /\ RowOf(users, last.email).reset_token_expires[1] >= now

(* C10: Redeem answers 400 to every password that is empty, blank or shorter than
   MinPasswordLen once trimmed, for every email (with a row or not), every token and
   every failure of the final step, and nothing changes. *)
C10_BadPasswordRejected ==
    LET bad == {p \in NewPasswords : ~AcceptablePassword(p)}
    IN  \A email \in Emails : \A token \in CandidateTokens(email) :
            \A pw \in bad, fault \in RedeemFaults :
                LET r == RedeemOf(email, <<token, pw, 1, fault>>)
                IN  r.resp.status = 400 /\ r.users = users

(* Redeem has just refused a password that is too short only once it is trimmed, for a
   user whose stored token is valid *)
C10_Witness ==
    /\ last.op = "redeem"
    /\ last.resp.status = 400
    /\ last.resp.detail = MsgPasswordShort
    /\ HasRow(users, last.email)
    /\ RowOf(users, last.email).reset_token # Null
    /\ RowOf(users, last.email).reset_token_expires[1] >= now

(* C11: the plain forgot-password request is answered with the same success message
   for every email, whether a row with that email exists or not. *)
C11_ForgotPasswordUniform ==
    \A email \in Emails :
        LET r == forgot_password(users, now, email)
        IN  r.resp.status = 200 /\ r.resp.detail = MsgForgot

(* C12: for a user whose row holds a reset token and an expiry that is not in the past,
   the plain reset-password request accepts every validly signed, unexpired reset
   token of that user's email, equal to the stored token or not, and sets the
   password. *)
C12_PlainResetTrustsSignature ==
    \A email \in {e \in Emails : HasRow(users, e)} :
        LET u == RowOf(users, email)
        IN  (u.reset_token # Null /\ u.reset_token_expires # Null /\ u.reset_token_expires[1] >= now)
            => \A token \in {c \in CandidateTokens(email) : SignedResetTokenFor(c, email, now)} :
                  LET r == reset_password(users, now, token, PwPadded, 1)
                  IN  /\ r.resp.status = 200
                      /\ RowOf(r.users, email).password_hash = hash_password(PwPadded, 1)

----------------------------------------------------------------------------
(* app/ml/image_validation.py *)

(* An uploaded file is what the libraries compute from it: whether PIL opens and
   verifies it, whether cv2.imread reads it, the variance of its Laplacian (tenths),
   its fraction of green pixels and of edge pixels (thousandths). *)
ImageFile(verifies, readable, laplacian_var, green_ratio, edge_density) ==
    [verifies |-> verifies, readable |-> readable, laplacian_var |-> laplacian_var,
     green_ratio |-> green_ratio, edge_density |-> edge_density]

BlurThreshold == 500

ExtremeBlurScore == 200

GreenRatioMin == 150

EdgeDensityMin == 50

MsgCannotOpen == "Hindi ma-open ang image. Pakisiguro na valid ang image file."

MsgTooBlurry(blur_score) == <<"Ang image ay masyadong malabo (blur score)", blur_score>>

MsgNotLeaf == "Ang image ay hindi mukhang dahon ng palay."

(* an image cv2 cannot read, or an error on the way, scores 0.0 *)
calculate_blur_score(img) == IF ~img.readable THEN 0 ELSE img.laplacian_var

is_image_blurry(img, threshold) ==
    LET blur_score == calculate_blur_score(img)
    IN  [is_blurry |-> blur_score < threshold, blur_score |-> blur_score]

(* faulty variant: the boundary fractions count as a leaf *)
detect_leaf_features_inclusive(img) ==
    IF ~img.readable THEN [green_ratio |-> 0, edge_density |-> 0, is_leaf |-> FALSE]
    ELSE [green_ratio |-> img.green_ratio, edge_density |-> img.edge_density,
          is_leaf |-> img.green_ratio >= GreenRatioMin /\ img.edge_density >= EdgeDensityMin]

detect_leaf_features(img) ==
    IF ~img.readable THEN [green_ratio |-> 0, edge_density |-> 0, is_leaf |-> FALSE]
    ELSE [green_ratio |-> img.green_ratio, edge_density |-> img.edge_density,
          is_leaf |-> img.green_ratio > GreenRatioMin /\ img.edge_density > EdgeDensityMin]

validate_image_for_scan(img) ==
    LET blur == is_image_blurry(img, BlurThreshold)
        leaf_features == detect_leaf_features(img)
        reject(msg) == [is_valid |-> FALSE, error_message |-> msg]
    IN  IF ~img.verifies THEN reject(MsgCannotOpen)
        ELSE IF blur.is_blurry /\ blur.blur_score < ExtremeBlurScore
            THEN reject(MsgTooBlurry(blur.blur_score))
        ELSE IF ~leaf_features.is_leaf THEN reject(MsgNotLeaf)
        ELSE [is_valid |-> TRUE, error_message |-> ""]

----------------------------------------------------------------------------
(* app/ml/model_service.py *)

DISEASE_CLASSES == <<"bacterial_leaf_blight", "healthy", "leaf_blast", "tungro_virus">>

DISEASE_NAMES ==
    [bacterial_leaf_blight |-> "Bacterial Leaf Blight", healthy |-> "Healthy",
     leaf_blast |-> "Leaf Blast", tungro_virus |-> "Tungro Virus"]

(* severity and action_required of DISEASE_RECOMMENDATIONS; the texts are named by
   their class and language *)
DISEASE_RECOMMENDATIONS ==
    [healthy |-> [fil |-> <<"fil", "healthy">>, severity |-> "none", action_required |-> FALSE],
     bacterial_leaf_blight |->
        [fil |-> <<"fil", "bacterial_leaf_blight">>, severity |-> "moderate", action_required |-> TRUE],
     leaf_blast |-> [fil |-> <<"fil", "leaf_blast">>, severity |-> "moderate", action_required |-> TRUE],
     tungro_virus |-> [fil |-> <<"fil", "tungro_virus">>, severity |-> "moderate", action_required |-> TRUE]]

DefaultRecommendation ==
    [fil |-> <<"fil", "consult">>, severity |-> "unknown", action_required |-> TRUE]

MockConfidence == 98700

DefaultConfidenceThreshold == 65000

HighConfidence == 80000

MediumConfidence == 60000

SecondMention == 25000

UncertainMargin == 15000

(* the model file as _load_model finds it: present or not, its extension, and how its
   library behaves: "ok", "missing" (ImportError), "load_raises", "eval_raises" *)
ModelFile(exists, ext, library) == [exists |-> exists, ext |-> ext, library |-> library]

ModelService(model, model_type) == [model |-> model, model_type |-> model_type]

(* ModelService.__init__ with _load_model: every failure leaves model None, except a
   PyTorch object whose eval() raises: model is set and model_type is not *)
_load_model(file) ==
    LET none == ModelService(Null, Null)
    IN  IF ~file.exists THEN none
        ELSE IF file.ext \in {".h5", ".keras"}
            THEN IF file.library = "ok" THEN ModelService(Some("net"), Some("keras")) ELSE none
        ELSE IF file.ext \in {".pth", ".pt"}
            THEN IF file.library = "ok" THEN ModelService(Some("net"), Some("pytorch"))
                 ELSE IF file.library = "eval_raises" THEN ModelService(Some("net"), Null)
                 ELSE none
        ELSE IF file.ext = ".onnx"
            THEN IF file.library = "ok" THEN ModelService(Some("net"), Some("onnx")) ELSE none
        ELSE none

(* faulty variant: the canned result is the one of an unhealthy leaf *)
_mock_predict_blight ==
    [disease_name |-> "Bacterial Leaf Blight", disease_class |-> "bacterial_leaf_blight",
     confidence |-> MockConfidence, confidence_raw |-> MockConfidence,
     recommendations |-> DISEASE_RECOMMENDATIONS["bacterial_leaf_blight"].fil,
     severity |-> "moderate", action_required |-> TRUE,
     all_predictions |-> [n \in {"Bacterial Leaf Blight"} |-> MockConfidence], is_confident |-> TRUE]

_mock_predict ==
    [disease_name |-> "Healthy", disease_class |-> "healthy",
     confidence |-> MockConfidence, confidence_raw |-> MockConfidence,
     recommendations |-> DISEASE_RECOMMENDATIONS["healthy"].fil,
     severity |-> "none", action_required |-> FALSE,
     all_predictions |-> [n \in {"Healthy"} |-> MockConfidence], is_confident |-> TRUE]

(* np.argmax: the first index of the greatest entry *)
argmax(v) == CHOOSE i \in 1..Len(v) : (\A j \in 1..Len(v) : v[j] <= v[i]) /\ (\A j \in 1..(i - 1) : v[j] < v[i])

(* np.argsort(v)[::-1][1]: an index of the second entry in descending order *)
second_index(v) ==
    CHOOSE i \in (1..Len(v)) \ {argmax(v)} : \A j \in (1..Len(v)) \ {argmax(v)} : v[j] <= v[i]

(* round(x, 2) of a percentage counted in thousandths *)
round2(x) == ((x + 5) \div 10) * 10

_build_ai_enhanced_recommendations(disease_class, confidence, rec_info, predictions) ==
    LET confidence_msg == IF confidence >= HighConfidence THEN "high"
                          ELSE IF confidence >= MediumConfidence THEN "medium" ELSE "low"
        second_confidence == predictions[second_index(predictions)]
        note == IF Len(predictions) > 1 /\ second_confidence > SecondMention
                   /\ confidence - second_confidence < SecondMention
                THEN Some(DISEASE_NAMES[DISEASE_CLASSES[second_index(predictions)]])
                ELSE Null
    IN  [confidence_msg |-> confidence_msg, base |-> rec_info.fil, note |-> note,
         prefix |-> rec_info.severity \in {"critical", "high", "moderate"},
         reassure |-> disease_class # "healthy" /\ rec_info.severity # "none"]

(* ModelService.predict.  run is what happens to this image: whether preprocessing and
   inference raise, and the output vector of the network *)
predict(service, run, confidence_threshold) ==
    LET predictions == run.output
        predicted_class_idx == argmax(predictions)
        confidence == predictions[predicted_class_idx]
        known == predicted_class_idx <= Len(DISEASE_CLASSES)
        disease_class == IF known THEN DISEASE_CLASSES[predicted_class_idx] ELSE "unknown"
        disease_name == IF known THEN DISEASE_NAMES[disease_class] ELSE "Unknown"
        rec_info == IF known THEN DISEASE_RECOMMENDATIONS[disease_class] ELSE DefaultRecommendation
        shown == 1..(IF Len(predictions) < Len(DISEASE_CLASSES) THEN Len(predictions) ELSE Len(DISEASE_CLASSES))
        names == {DISEASE_NAMES[DISEASE_CLASSES[i]] : i \in shown}
    IN  IF service.model = Null THEN _mock_predict
        ELSE IF run.preprocess = "raises" THEN _mock_predict
        ELSE IF service.model_type = Null THEN _mock_predict
        ELSE IF run.inference = "raises" THEN _mock_predict
        ELSE [disease_name |-> disease_name, disease_class |-> disease_class,
              confidence |-> round2(confidence), confidence_raw |-> confidence,
              recommendations |->
                  _build_ai_enhanced_recommendations(disease_class, confidence, rec_info, predictions),
              severity |-> rec_info.severity, action_required |-> rec_info.action_required,
              all_predictions |->
                  [n \in names |-> predictions[CHOOSE i \in shown : DISEASE_NAMES[DISEASE_CLASSES[i]] = n]],
              is_confident |-> confidence >= confidence_threshold]

(* get_model_service(): the global instance, created on first use from the model file *)
get_model_service(instance, file) == IF instance = Null THEN Some(_load_model(file)) ELSE instance

----------------------------------------------------------------------------
(* app/users/routes.py *)

MsgBadBearer == "Hindi valid o nag-expire na ang token. Pakilagay muli ang inyong email at password."

MsgNoBearerUser == "Hindi nahanap ang user. Pakilagay muli ang inyong email at password."

(* faulty variant: the subject is matched against the id or the email *)
QueryByIdOrEmail(tbl, id) ==
    LET m == {u \in tbl : u.id = id \/ u.email = id}
    IN  IF m = {} THEN Null ELSE Some(CHOOSE u \in m : TRUE)

(* db.query(User).filter(User.id == sub).first() *)
QueryById(tbl, id) ==
    LET m == {u \in tbl : u.id = id}
    IN  IF m = {} THEN Null ELSE Some(CHOOSE u \in m : TRUE)

(* Returns [exc, user] *)
get_current_user(tbl, t, token) ==
    LET sub == decode_token(token, t)
        user == QueryById(tbl, sub[1])
    IN  IF SubFalsy(sub) THEN [exc |-> HTTPException(401, MsgBadBearer), user |-> Null]
        ELSE IF user = Null THEN [exc |-> HTTPException(401, MsgNoBearerUser), user |-> Null]
        ELSE [exc |-> Null, user |-> user]

UserOut(u) == [id |-> u.id, email |-> u.email, name |-> u.name, role |-> u.role]

me(tbl, t, token) ==
    LET current_user == get_current_user(tbl, t, token)
    IN  IF current_user.exc # Null
        THEN Reply(current_user.exc[1].status_code, current_user.exc[1].detail)
        ELSE Reply(200, UserOut(current_user.user[1]))

(* Returns [resp, users] *)
update_profile(tbl, t, token, name) ==
    LET current_user == get_current_user(tbl, t, token)
        u == current_user.user[1]
        pending == SetRow(tbl, u, [u EXCEPT !.name = name])
    IN  IF current_user.exc # Null
        THEN [resp |-> Reply(current_user.exc[1].status_code, current_user.exc[1].detail), users |-> tbl]
        ELSE [resp |-> Reply(200, UserOut([u EXCEPT !.name = name])), users |-> Commit(tbl, pending, TRUE)]

get_user_stats(tbl, scn, t, token) ==
    LET current_user == get_current_user(tbl, t, token)
        mine == {sc \in scn : sc.user_id = current_user.user[1].id}
        total_scans == Cardinality(mine)
    IN  IF current_user.exc # Null
        THEN Reply(current_user.exc[1].status_code, current_user.exc[1].detail)
        ELSE Reply(200, [total_scans |-> total_scans,
                         healthy_crops |-> Cardinality({sc \in mine : sc.disease_name = "Healthy"}),
                         diseases |-> Cardinality({sc \in mine : sc.disease_name # "Healthy"}),
                         reports |-> total_scans])

----------------------------------------------------------------------------
(* app/db/models.py (Scan), app/scans/schemas.py and app/scans/routes.py *)

UPLOAD_DIR == "uploads"

(* image_path of a row saved without an upload: the empty string *)
NoPath == <<>>

Scan(id, user_id, image_path, disease_name, confidence, recommendations, created_at) ==
    [id |-> id, user_id |-> user_id, image_path |-> image_path, disease_name |-> disease_name,
     confidence |-> confidence, recommendations |-> recommendations, created_at |-> created_at]

(* faulty variant: the new row replaces the rows its user already has *)
AddScanReplacing(scn, row) == {sc \in scn : sc.user_id # row.user_id} \cup {row}

(* db.add(scan) *)
AddScan(scn, row) == scn \cup {row}

(* faulty variant: the lookup is by id alone *)
QueryScanAnyOwner(scn, scan_id, user_id) ==
    LET m == {sc \in scn : sc.id = scan_id}
    IN  IF m = {} THEN Null ELSE Some(CHOOSE sc \in m : TRUE)

(* db.query(Scan).filter(Scan.id == scan_id, Scan.user_id == current_user.id).first() *)
QueryScan(scn, scan_id, user_id) ==
    LET m == {sc \in scn : sc.id = scan_id /\ sc.user_id = user_id}
    IN  IF m = {} THEN Null ELSE Some(CHOOSE sc \in m : TRUE)

MsgNotImage == "Ang file ay dapat na image. Pakipili ng image file."

MsgModelNotLoaded == "Ang ML model ay hindi pa na-load."

MsgLowConfidence(confidence) == <<"Mababa ang kumpiyansa sa diagnosis", confidence>>

MsgUncertain(top_conf, second_conf) == <<"Hindi tiyak ang diagnosis", top_conf, second_conf>>

MsgScanFailed(text) == <<"May problema sa pag-process ng scan: ", text>>

MsgScanNotFound == "Hindi nahanap ang scan. Pakisubukang muli."

MsgImageNotFound == "Hindi nahanap ang image file. Pakisubukang muli."

MsgNotOwnScan == "Hindi nahanap ang scan o hindi ka may-ari ng scan na ito."

MsgDeleted == "Matagumpay na na-delete ang scan."

RejectConfidence == 50000

UncertainTop == 60000

(* what an injected failure of the scan request raises *)
ScanExcText(fault) ==
    IF fault = "open" THEN "[Errno 13] Permission denied"
    ELSE IF fault = "copy" THEN "[Errno 28] No space left on device"
    ELSE "(sqlite3.OperationalError) database is locked"

(* os.path.splitext(file.filename or 'image.jpg')[1] *)
splitext(filename) == IF filename = Null THEN ".jpg" ELSE filename[1].ext

(* `not file.content_type or not file.content_type.startswith('image/')` *)
NotImageType(content_type) == content_type = Null \/ content_type[1][1] # "image"

(* sorted(all_predictions.items(), key=value, reverse=True)[0] and [1] *)
TopConf(all_predictions) ==
    LET k == CHOOSE a \in DOMAIN all_predictions :
                 \A b \in DOMAIN all_predictions : all_predictions[b] <= all_predictions[a]
    IN  [key |-> k, value |-> all_predictions[k]]

SecondConf(all_predictions) ==
    LET rest == DOMAIN all_predictions \ {TopConf(all_predictions).key}
        k == CHOOSE a \in rest : \A b \in rest : all_predictions[b] <= all_predictions[a]
    IN  all_predictions[k]

(* what a request did besides answering: the file it wrote, whether it called predict,
   the row it stored *)
Effects(wrote, predicted, row) == [wrote |-> wrote, predicted |-> predicted, row |-> row]

NoEffects == Effects(Null, FALSE, Null)

(* faulty variant: the verdict of the gate is not looked at *)
GateIgnored(gate) == FALSE

(* `if not is_valid:` *)
GateRejects(gate) == ~gate.is_valid

(* POST /scans/scan.  upload is the multipart file: content_type, filename and the
   image; env is what the request meets: the model file (read when the global service
   is first created), the run of the network on this image, and an injected failure:
   "open" (the upload file cannot be created), "copy" (the copy fails after the file
   was created), "commit", "refresh".
   Returns [resp, scans, uploads, model_service, uuids, fx]. *)
scan_image(tbl, scn, files, svc, n, t, token, upload, env) ==
    LET current_user == get_current_user(tbl, t, token)
        file_path == <<UPLOAD_DIR, n + 1, splitext(upload.filename)>>
        gate == validate_image_for_scan(upload.image)
        service == get_model_service(svc, env.model_file)
        prediction_result == predict(service[1], env.run, DefaultConfidenceThreshold)
        confidence == prediction_result.confidence
        all_predictions == prediction_result.all_predictions
        top_conf == TopConf(all_predictions).value
        second_conf == SecondConf(all_predictions)
        scan == Scan(n + 2, current_user.user[1].id, file_path, prediction_result.disease_name,
                     confidence, prediction_result.recommendations, t)
        out(resp, scn2, files2, svc2, n2, fx) ==
            [resp |-> resp, scans |-> scn2, uploads |-> files2, model_service |-> svc2,
             uuids |-> n2, fx |-> fx]
        (* `if os.path.exists(file_path): os.remove(file_path)` *)
        removed == files \ {file_path}
        failed(fault) == Reply(500, MsgScanFailed(ScanExcText(fault)))
        wrote == Effects(Some(file_path), FALSE, Null)
        ran == Effects(Some(file_path), TRUE, Null)
    IN  IF current_user.exc # Null
            THEN out(Reply(current_user.exc[1].status_code, current_user.exc[1].detail),
                     scn, files, svc, n, NoEffects)
        ELSE IF NotImageType(upload.content_type)
            THEN out(Reply(400, MsgNotImage), scn, files, svc, n, NoEffects)
        ELSE IF env.fault = "open"
            THEN out(failed("open"), scn, removed, svc, n + 1, NoEffects)
        ELSE IF env.fault = "copy"
            THEN out(failed("copy"), scn, removed, svc, n + 1, wrote)
        ELSE IF GateRejects(gate)
            THEN out(Reply(400, gate.error_message), scn, removed, svc, n + 1, wrote)
        ELSE IF service[1].model = Null
            THEN out(Reply(503, MsgModelNotLoaded), scn, removed, service, n + 1, wrote)
        ELSE IF confidence < RejectConfidence
            THEN out(Reply(400, MsgLowConfidence(confidence)), scn, removed, service, n + 1, ran)
        ELSE IF /\ Cardinality(DOMAIN all_predictions) > 1
                /\ top_conf - second_conf < UncertainMargin
                /\ top_conf < UncertainTop
            THEN out(Reply(400, MsgUncertain(top_conf, second_conf)), scn, removed, service, n + 1, ran)
        ELSE IF env.fault = "commit"
            THEN out(failed("commit"), scn, removed, service, n + 2, ran)
        ELSE IF env.fault = "refresh"
            THEN out(failed("refresh"), AddScan(scn, scan), removed, service, n + 2,
                     Effects(Some(file_path), TRUE, Some(scan.id)))
        ELSE out(Reply(201, scan), AddScan(scn, scan), files \cup {file_path}, service, n + 2,
                 Effects(Some(file_path), TRUE, Some(scan.id)))

(* ScanIn: disease_name and confidence are required, any float is a confidence *)
ScanIn(payload) == payload.disease_name # Null /\ payload.confidence # Null

(* POST /scans.  Returns [resp, scans, uuids, fx] *)
save_scan(tbl, scn, n, t, token, payload, fault) ==
    LET current_user == get_current_user(tbl, t, token)
        scan == Scan(n + 1, current_user.user[1].id, NoPath, payload.disease_name[1],
                     payload.confidence[1], payload.recommendations, t)
        out(resp, scn2, n2, fx) == [resp |-> resp, scans |-> scn2, uuids |-> n2, fx |-> fx]
    IN  IF current_user.exc # Null
            THEN out(Reply(current_user.exc[1].status_code, current_user.exc[1].detail), scn, n, NoEffects)
        ELSE IF ~ScanIn(payload) THEN out(Reply(422, MsgValidation), scn, n, NoEffects)
        ELSE IF fault = "commit" THEN out(Unhandled, scn, n + 1, NoEffects)
        ELSE out(Reply(201, scan), AddScan(scn, scan), n + 1, Effects(Null, FALSE, Some(scan.id)))

(* Scan.disease_name.ilike('%' + pattern + '%'): the names that hold the pattern,
   letter case ignored *)
ILike(disease_name, pattern) ==
    \/ pattern = "LEAF" /\ disease_name \in {"Bacterial Leaf Blight", "Leaf Blast"}
    \/ pattern = "healthy" /\ disease_name = "Healthy"

(* GET /scans/history.  order is the order in which the store returns the matching
   rows: descending in the sort key, rows of equal key in any order *)
get_scan_history(tbl, scn, t, token, limit, offset, disease_filter, sort_by, order) ==
    LET current_user == get_current_user(tbl, t, token)
        total == Len(order)
        last_index == IF offset + limit < total THEN offset + limit ELSE total
    IN  IF current_user.exc # Null
            THEN Reply(current_user.exc[1].status_code, current_user.exc[1].detail)
        ELSE IF limit < 1 \/ limit > 100 \/ offset < 0 \/ sort_by \notin {"date", "confidence"}
            THEN Reply(422, MsgValidation)
        ELSE Reply(200, [scans |-> SubSeq(order, offset + 1, last_index), total |-> total])

(* the rows the query of get_scan_history selects *)
HistoryRows(scn, user_id, disease_filter) ==
    {sc \in scn : /\ sc.user_id = user_id
                  /\ (disease_filter = Null \/ disease_filter[1] = ""
                        \/ ILike(sc.disease_name, disease_filter[1]))}

(* the orders ORDER BY ... DESC allows for these rows *)
HistoryOrders(rows, sort_by) ==
    LET key(sc) == IF sort_by = "confidence" THEN sc.confidence ELSE sc.created_at
    IN  {o \in [1..Cardinality(rows) -> rows] :
            /\ \A i, j \in DOMAIN o : i # j => o[i] # o[j]
            /\ \A i, j \in DOMAIN o : i < j => key(o[i]) >= key(o[j])}

(* the media type get_scan_image derives from the extension, lower-cased *)
MediaType(ext) ==
    IF ext \in {".png", ".PNG"} THEN "image/png"
    ELSE IF ext \in {".gif", ".GIF"} THEN "image/gif"
    ELSE IF ext \in {".webp", ".WEBP"} THEN "image/webp"
    ELSE "image/jpeg"

(* GET /scans/image/{scan_id} *)
get_scan_image(tbl, scn, files, t, token, scan_id) ==
    LET current_user == get_current_user(tbl, t, token)
        scan == QueryScan(scn, scan_id, current_user.user[1].id)
    IN  IF current_user.exc # Null
            THEN Reply(current_user.exc[1].status_code, current_user.exc[1].detail)
        ELSE IF scan = Null THEN Reply(404, MsgScanNotFound)
        ELSE IF scan[1].image_path = NoPath \/ scan[1].image_path \notin files
            THEN Reply(404, MsgImageNotFound)
        ELSE Reply(200, [path |-> scan[1].image_path, media_type |-> MediaType(scan[1].image_path[3])])

(* GET /scans/diseases *)
get_unique_diseases(tbl, scn, t, token) ==
    LET current_user == get_current_user(tbl, t, token)
    IN  IF current_user.exc # Null
            THEN Reply(current_user.exc[1].status_code, current_user.exc[1].detail)
        ELSE Reply(200, {sc.disease_name : sc \in {r \in scn : r.user_id = current_user.user[1].id}})

(* DELETE /scans/{scan_id}.  fault is "remove" (os.remove raises: logged, the row is
   deleted all the same) or "commit".  Returns [resp, scans, uploads] *)
delete_scan(tbl, scn, files, t, token, scan_id, fault) ==
    LET current_user == get_current_user(tbl, t, token)
        scan == QueryScan(scn, scan_id, current_user.user[1].id)
        kept == IF fault = "remove" \/ scan[1].image_path = NoPath
                THEN files ELSE files \ {scan[1].image_path}
        out(resp, scn2, files2) == [resp |-> resp, scans |-> scn2, uploads |-> files2]
    IN  IF current_user.exc # Null
            THEN out(Reply(current_user.exc[1].status_code, current_user.exc[1].detail), scn, files)
        ELSE IF scan = Null THEN out(Reply(404, MsgNotOwnScan), scn, files)
        ELSE IF fault = "commit" THEN out(Unhandled, scn, kept)
        ELSE out(Reply(200, [message |-> MsgDeleted, deleted_scan_id |-> scan_id]),
                 scn \ {scan[1]}, kept)

----------------------------------------------------------------------------
(* Requests to the scan endpoints *)

MaxUuids == 2

ImgCorrupt == ImageFile(FALSE, FALSE, 0, 0, 0)

(* a 1x1 black image *)
ImgBlack == ImageFile(TRUE, TRUE, 0, 0, 0)

(* a file PIL verifies and cv2 cannot read *)
ImgUnreadable == ImageFile(TRUE, FALSE, 900, 400, 200)

ImgBlurryLeaf == ImageFile(TRUE, TRUE, ExtremeBlurScore - 1, 400, 200)

ImgSoftLeaf == ImageFile(TRUE, TRUE, ExtremeBlurScore, 400, 200)

ImgWall == ImageFile(TRUE, TRUE, 900, 0, 300)

ImgGreenBoundary == ImageFile(TRUE, TRUE, 900, GreenRatioMin, 200)

ImgEdgeBoundary == ImageFile(TRUE, TRUE, 900, 400, EdgeDensityMin)

ImgLeaf == ImageFile(TRUE, TRUE, 900, 400, 200)

Images ==
    {ImgCorrupt, ImgBlack, ImgUnreadable, ImgBlurryLeaf, ImgSoftLeaf, ImgWall,
     ImgGreenBoundary, ImgEdgeBoundary, ImgLeaf}

Run(preprocess, inference, output) == [preprocess |-> preprocess, inference |-> inference, output |-> output]

RunHealthy == Run("ok", "ok", <<1000, 97004, 1500, 496>>)

RunBlight == Run("ok", "ok", <<62000, 38000, 0, 0>>)

RunUncertain == Run("ok", "ok", <<55000, 45000, 0, 0>>)

RunLow == Run("ok", "ok", <<40000, 30000, 20000, 10000>>)

RunPreprocessRaises == Run("raises", "ok", <<62000, 38000, 0, 0>>)

RunInferenceRaises == Run("ok", "raises", <<62000, 38000, 0, 0>>)

Runs == {RunHealthy, RunBlight, RunUncertain, RunLow, RunPreprocessRaises, RunInferenceRaises}

FileKeras == ModelFile(TRUE, ".keras", "ok")

FileAbsent == ModelFile(FALSE, ".keras", "ok")

FileUnsupported == ModelFile(TRUE, ".bin", "ok")

FileKerasBroken == ModelFile(TRUE, ".h5", "load_raises")

FileTorchNoEval == ModelFile(TRUE, ".pth", "eval_raises")

FileTorch == ModelFile(TRUE, ".pt", "ok")

FileOnnx == ModelFile(TRUE, ".onnx", "ok")

FileOnnxMissing == ModelFile(TRUE, ".onnx", "missing")

ModelFiles ==
    {FileKeras, FileAbsent, FileUnsupported, FileKerasBroken, FileTorchNoEval, FileTorch,
     FileOnnx, FileOnnxMissing}

ScanFaults == {"none", "open", "copy", "commit", "refresh"}

DeleteFaults == {"none", "remove", "commit"}

Upload(content_type, filename, image) ==
    [content_type |-> content_type, filename |-> filename, image |-> image]

Env(model_file, run, fault) == [model_file |-> model_file, run |-> run, fault |-> fault]

PngType == Some(<<"image", "png">>)

(* the uploads and what they meet: every image; every content type; a named file;
   every run of the network under a loaded model; an absent model file; every
   failure *)
ScanInputs ==
    {<<Upload(PngType, Null, img), Env(FileKeras, RunHealthy, "none")>> : img \in Images}
        \cup {<<Upload(ct, Null, ImgLeaf), Env(FileKeras, RunHealthy, "none")>> :
                ct \in {Null, Some(<<"text", "plain">>)}}
        \cup {<<Upload(PngType, Some([stem |-> "leaf", ext |-> ".PNG"]), ImgLeaf),
                Env(FileKeras, RunBlight, "none")>>}
        \cup {<<Upload(PngType, Null, ImgLeaf), Env(FileKeras, run, "none")>> : run \in Runs \ {RunBlight}}
        \cup {<<Upload(PngType, Null, ImgLeaf), Env(FileAbsent, RunHealthy, "none")>>}
        \cup {<<Upload(PngType, Null, ImgLeaf), Env(FileKeras, RunHealthy, fault)>> : fault \in ScanFaults}

ScanPayload(disease_name, confidence, recommendations) ==
    [disease_name |-> disease_name, confidence |-> confidence, recommendations |-> recommendations]

(* what a client may post to save a scan: any name, any float *)
SavePayloads ==
    {ScanPayload(Some("Leaf Blast"), Some(250000), Some(<<"fil", "leaf_blast">>)),
     ScanPayload(Null, Some(50000), Null)}

(* the bearer tokens a client may present: the session token login hands out now to
   each user, a reset token and junk *)
SessionBearers == {create_access_token(UserId(e), Null, now) : e \in Emails}

BearerTokens ==
    SessionBearers \cup {create_password_reset_token("ana@x.ph", VerifyTokenMinutes, now), GarbageToken}

(* the history queries: the defaults, a filter with the other sort key and a page, and
   a value the query validation refuses *)
HistoryQueries == {<<50, 0, Null, "date">>, <<1, 1, Some("LEAF"), "confidence">>, <<0, 0, Some(""), "date">>}

(* the email of the user a bearer token resolves to, "" when it resolves to none *)
Caller(token) ==
    LET current_user == get_current_user(users, now, token)
    IN  IF current_user.exc # Null THEN "" ELSE current_user.user[1].email

(* a request to a scan or user endpoint: who called, with what, the answer and the
   effects *)
ScanRequest(op, email, arg, resp, fx) ==
    [op |-> op, email |-> email, arg |-> arg, resp |-> resp, fx |-> fx]

ScanImage(token, upload, env) ==
    LET r == scan_image(users, scans, uploads, model_service, uuids, now, token, upload, env)
    IN  /\ uuids + 2 <= MaxUuids
        /\ scans' = r.scans
        /\ uploads' = r.uploads
        /\ model_service' = r.model_service
        /\ uuids' = r.uuids
        /\ last' = ScanRequest("scan_image", Caller(token), <<upload, env>>, r.resp, r.fx)
        /\ UNCHANGED <<users, now, redeemed>>
        /\ UNCHANGED flowvars

SaveScan(token, payload, fault) ==
    LET r == save_scan(users, scans, uuids, now, token, payload, fault)
    IN  /\ uuids + 1 <= MaxUuids
        /\ scans' = r.scans
        /\ uuids' = r.uuids
        /\ last' = ScanRequest("save_scan", Caller(token), payload, r.resp, r.fx)
        /\ UNCHANGED <<users, now, redeemed, uploads, model_service>>
        /\ UNCHANGED flowvars

GetScanHistory(token, limit, offset, disease_filter, sort_by) ==
    \E order \in HistoryOrders(HistoryRows(scans, UserId(Caller(token)), disease_filter), sort_by) :
        /\ last' = ScanRequest("get_scan_history", Caller(token), <<limit, offset>>,
                               get_scan_history(users, scans, now, token, limit, offset,
                                                disease_filter, sort_by, order),
                               NoEffects)
        /\ UNCHANGED <<users, now, redeemed>>
        /\ UNCHANGED scanvars
        /\ UNCHANGED flowvars

GetScanImage(token, scan_id) ==
    /\ last' = ScanRequest("get_scan_image", Caller(token), scan_id,
                           get_scan_image(users, scans, uploads, now, token, scan_id), NoEffects)
    /\ UNCHANGED <<users, now, redeemed>>
    /\ UNCHANGED scanvars
    /\ UNCHANGED flowvars

GetUniqueDiseases(token) ==
    /\ last' = ScanRequest("get_unique_diseases", Caller(token), <<>>,
                           get_unique_diseases(users, scans, now, token), NoEffects)
    /\ UNCHANGED <<users, now, redeemed>>
    /\ UNCHANGED scanvars
    /\ UNCHANGED flowvars

DeleteScan(token, scan_id, fault) ==
    LET r == delete_scan(users, scans, uploads, now, token, scan_id, fault)
    IN  /\ scans' = r.scans
        /\ uploads' = r.uploads
        /\ last' = ScanRequest("delete_scan", Caller(token), scan_id, r.resp, NoEffects)
        /\ UNCHANGED <<users, now, redeemed, model_service, uuids>>
        /\ UNCHANGED flowvars

Me(token) ==
    /\ last' = ScanRequest("me", Caller(token), <<>>, me(users, now, token), NoEffects)
    /\ UNCHANGED <<users, now, redeemed>>
    /\ UNCHANGED scanvars
    /\ UNCHANGED flowvars

UpdateProfile(token, name) ==
    LET r == update_profile(users, now, token, name)
    IN  /\ users' = r.users
        /\ last' = ScanRequest("update_profile", Caller(token), name, r.resp, NoEffects)
        /\ UNCHANGED <<now, redeemed>>
        /\ UNCHANGED scanvars
        /\ UNCHANGED flowvars

GetUserStats(token) ==
    /\ last' = ScanRequest("get_user_stats", Caller(token), <<>>,
                           get_user_stats(users, scans, now, token), NoEffects)
    /\ UNCHANGED <<users, now, redeemed>>
    /\ UNCHANGED scanvars
    /\ UNCHANGED flowvars

(* two registered users, nothing scanned yet *)
ScanInit ==
    /\ users = register(register({}, RegisterPayload("ana@x.ph", QCity, AnsBlue), <<1, 1, 1, 1>>).users,
                        RegisterPayload("ben@x.ph", QCity, AnsBlue), <<1, 1, 1, 1>>).users
    /\ now = 0
    /\ last = Request("start", "", Reply(200, ""))
    /\ redeemed = {}
    /\ scans = {}
    /\ uploads = {}
    /\ model_service = Null
    /\ uuids = 0
    /\ issued = {}
    /\ pwhist = <<>>
    /\ procs = <<>>

AnaBearer == create_access_token(UserId("ana@x.ph"), Null, now)

ScanNext ==
    \/ \E token \in SessionBearers : \E in \in ScanInputs : ScanImage(token, in[1], in[2])
    \/ \E token \in BearerTokens \ SessionBearers :
            ScanImage(token, Upload(PngType, Null, ImgLeaf), Env(FileKeras, RunHealthy, "none"))
    \/ \E token \in BearerTokens, payload \in SavePayloads : SaveScan(token, payload, "none")
    \/ \E payload \in SavePayloads : SaveScan(AnaBearer, payload, "commit")
    \/ \E token \in SessionBearers \cup {GarbageToken}, q \in HistoryQueries :
            GetScanHistory(token, q[1], q[2], q[3], q[4])
    \/ \E token \in SessionBearers \cup {GarbageToken}, scan_id \in 1..MaxUuids : GetScanImage(token, scan_id)
    \/ GetUniqueDiseases(AnaBearer)
    \/ \E token \in SessionBearers \cup {GarbageToken}, scan_id \in 1..MaxUuids :
            DeleteScan(token, scan_id, "none")
    \/ \E scan_id \in 1..MaxUuids, fault \in DeleteFaults : DeleteScan(AnaBearer, scan_id, fault)
    \/ Me(AnaBearer)
    \/ \E token \in {AnaBearer, GarbageToken} : UpdateProfile(token, "Ana B.")
    \/ GetUserStats(AnaBearer)
    \/ Register("ana@x.ph", QCity, AnsBlue, 1)
    \/ Login("ana@x.ph", PwOld)
    \/ ForgotPassword("ana@x.ph")
    \/ Discover("ana@x.ph")

ScanSpec == ScanInit /\ [][ScanNext]_vars

----------------------------------------------------------------------------
(* The admission gate and the model service on their own: calls of
   validate_image_for_scan, get_model_service and ModelService.predict *)

Thresholds == {RejectConfidence, DefaultConfidenceThreshold, MockConfidence + 1}

GetModelService(file) ==
    /\ model_service = Null
    /\ model_service' = get_model_service(model_service, file)
    /\ last' = ScanRequest("get_model_service", "", file, Reply(200, ""), NoEffects)
    /\ UNCHANGED <<users, now, redeemed, scans, uploads, uuids>>
    /\ UNCHANGED flowvars

Predict(run, confidence_threshold) ==
    /\ model_service # Null
    /\ last' = ScanRequest("predict", "", <<run, confidence_threshold>>,
                           predict(model_service[1], run, confidence_threshold), NoEffects)
    /\ UNCHANGED <<users, now, redeemed>>
    /\ UNCHANGED scanvars
    /\ UNCHANGED flowvars

ValidateImageForScan(img) ==
    /\ last' = ScanRequest("validate_image_for_scan", "", img, validate_image_for_scan(img), NoEffects)
    /\ UNCHANGED <<users, now, redeemed>>
    /\ UNCHANGED scanvars
    /\ UNCHANGED flowvars

MlNext ==
    \/ \E file \in ModelFiles : GetModelService(file)
    \/ \E run \in Runs, confidence_threshold \in Thresholds : Predict(run, confidence_threshold)
    \/ \E img \in Images : ValidateImageForScan(img)

MlSpec == ScanInit /\ [][MlNext]_vars

----------------------------------------------------------------------------
(* Properties of the scan endpoints, the gate and the model service *)

(* the last request was a POST /scans/scan that wrote the uploaded file *)
ScanWrote == last.op = "scan_image" /\ last.fx.wrote # Null

(* C13: when a POST /scans/scan request that wrote the uploaded file completes, the
   file exists in the upload directory if and only if the request created a Scan row
   whose image_path is that file; whenever the answer is not the created scan, the
   file is gone. *)
C13_NoOrphanedUploads ==
    ScanWrote =>
        LET file_path == last.fx.wrote[1]
            created == /\ last.fx.row # Null
                       /\ \E sc \in scans : sc.id = last.fx.row[1] /\ sc.image_path = file_path
        IN  /\ file_path \in uploads <=> created
            /\ last.resp.status # 201 => file_path \notin uploads

(* C14: predict is called only for an image the gate accepted; an image the gate
   rejects, once the upload was written, is answered 400 with the gate's message, with
   no call of predict and no Scan row. *)
C14_GateBeforeClassifier ==
    last.op = "scan_image" =>
        LET gate == validate_image_for_scan(last.arg[1].image)
        IN  /\ last.fx.predicted => gate.is_valid
            /\ (ScanWrote /\ last.arg[2].fault \notin {"open", "copy"} /\ ~gate.is_valid)
                => /\ last.resp.status = 400
                   /\ last.resp.detail = gate.error_message
                   /\ ~last.fx.predicted
                   /\ last.fx.row = Null

(* the 1x1 black image has just been refused as too blurry, before any prediction *)
C14_Witness ==
    /\ last.op = "scan_image"
    /\ last.arg[1].image = ImgBlack
    /\ last.resp.status = 400
    /\ last.resp.detail = MsgTooBlurry(0)
    /\ ~last.fx.predicted
    /\ scans = {}

(* the first check of the gate an image fails, "" when it passes them all *)
FirstFailingCheck(img) ==
    IF ~img.verifies THEN "decode"
    ELSE IF calculate_blur_score(img) < ExtremeBlurScore THEN "sharpness"
    ELSE IF ~(/\ detect_leaf_features(img).green_ratio > GreenRatioMin
              /\ detect_leaf_features(img).edge_density > EdgeDensityMin) THEN "leaf"
    ELSE ""

(* C15: validate_image_for_scan accepts an image exactly when it decodes, its sharpness
   score is at least ExtremeBlurScore, its green fraction exceeds GreenRatioMin and its
   edge fraction exceeds EdgeDensityMin; a rejection carries the message of the first
   failing check in the order decode, sharpness, leaf. *)
C15_GateVerdict ==
    last.op = "validate_image_for_scan" =>
        LET img == last.arg
            v == last.resp
            failing == FirstFailingCheck(img)
        IN  /\ v.is_valid <=> failing = ""
            /\ failing = "decode" => v.error_message = MsgCannotOpen
            /\ failing = "sharpness" => v.error_message = MsgTooBlurry(calculate_blur_score(img))
            /\ failing = "leaf" => v.error_message = MsgNotLeaf

(* an image that is too blurry and not leaf-like has just been refused as too blurry *)
C15_Witness ==
    /\ last.op = "validate_image_for_scan"
    /\ last.arg = ImgBlack
    /\ ~last.resp.is_valid
    /\ last.resp.error_message = MsgTooBlurry(0)

(* no model is loaded: the load left no model object, or an object without a type *)
NotLoaded(service) == service.model = Null \/ service.model_type = Null

(* the extensions _load_model knows *)
SupportedFormats == {".h5", ".keras", ".pth", ".pt", ".onnx"}

(* C16: when the model file is absent, of an unsupported format or fails to load, no
   model is loaded, and predict returns one fixed result, label "Healthy" with
   confidence MockConfidence, for every run of every input and every threshold. *)
C16_MockWithoutModel ==
    /\ last.op = "get_model_service" =>
           LET file == last.arg
           IN  (~file.exists \/ file.ext \notin SupportedFormats \/ file.library # "ok")
               => NotLoaded(model_service[1])
    /\ (last.op = "predict" /\ NotLoaded(model_service[1])) =>
           /\ last.resp.disease_name = "Healthy"
           /\ last.resp.confidence = MockConfidence
           /\ \A run \in Runs, confidence_threshold \in Thresholds :
                  predict(model_service[1], run, confidence_threshold) = last.resp

(* predict has just answered "Healthy" for a run whose output is weak, no model being
   loaded *)
C16_Witness ==
    /\ last.op = "predict"
    /\ model_service # Null
    /\ model_service[1].model = Null
    /\ last.arg[1] = RunLow
    /\ last.resp.disease_name = "Healthy"
    /\ last.resp.confidence = MockConfidence

(* the greatest entry of an output vector *)
Greatest(v) == CHOOSE x \in {v[i] : i \in 1..Len(v)} : \A i \in 1..Len(v) : v[i] <= x

(* C17: every Scan row POST /scans/scan creates carries the label and the confidence of
   a forward pass of the loaded model on the uploaded image: the model is loaded,
   preprocessing and inference did not fail, and the row is not the canned result. *)
C17_RowsFromForwardPass ==
    (last.op = "scan_image" /\ last.fx.row # Null) =>
        LET run == last.arg[2].run
        IN  \A sc \in {r \in scans : r.id = last.fx.row[1]} :
                /\ model_service # Null
                /\ ~NotLoaded(model_service[1])
                /\ run.preprocess = "ok"
                /\ run.inference = "ok"
                /\ sc.confidence = round2(Greatest(run.output))
                /\ \E i \in 1..Len(DISEASE_CLASSES) :
                      /\ run.output[i] = Greatest(run.output)
                      /\ sc.disease_name = DISEASE_NAMES[DISEASE_CLASSES[i]]

FullConfidence == 100000

(* C18: every stored Scan row has a confidence between 0 and 100 percent. *)
C18_ConfidenceInRange ==
    \A sc \in scans : 0 <= sc.confidence /\ sc.confidence <= FullConfidence

(* C19: no step changes a field of an existing Scan row; a row disappears only by a
   successful delete_scan of that row. *)
C19_RowsImmutable ==
    [][\A sc \in scans :
          \/ sc \in scans'
          \/ /\ last'.op = "delete_scan"
             /\ last'.resp.status = 200
             /\ last'.arg = sc.id
             /\ \A kept \in scans' : kept.id # sc.id]_vars

(* a second row has just been saved for a user next to an older row of the same user,
   which is still stored *)
C19_Witness ==
    /\ last.op = "save_scan"
    /\ last.resp.status = 201
    /\ \E sc \in scans : sc.id # last.fx.row[1] /\ sc.user_id = UserId(last.email)

(* C20: for every user and every scan of another user, delete_scan and get_scan_image
   called by that user answer 404, and delete_scan leaves the rows and the files as
   they are. *)
C20_OwnerOnly ==
    \A u \in users : \A sc \in {r \in scans : r.user_id # u.id} :
        LET token == create_access_token(u.id, Null, now)
        IN  /\ get_scan_image(users, scans, uploads, now, token, sc.id).status = 404
            /\ \A fault \in DeleteFaults :
                  LET d == delete_scan(users, scans, uploads, now, token, sc.id, fault)
                  IN  d.resp.status = 404 /\ d.scans = scans /\ d.uploads = uploads

(* a user has just been refused the deletion of another user's scan, whose row and
   image file are still there *)
C20_Witness ==
    /\ last.op = "delete_scan"
    /\ last.email # ""
    /\ last.resp.status = 404
    /\ \E sc \in scans :
          /\ sc.id = last.arg
          /\ sc.user_id # UserId(last.email)
          /\ sc.image_path \in uploads

----------------------------------------------------------------------------
(* Internal errors *)

(* the fixed texts the handlers and the framework answer an internal error with *)
GenericMessages == {MsgUpdateFailed, MsgVerifyFailed, MsgDatabase, MsgResetFailed, MsgServerError}

(* the texts of the exceptions a scan request can meet *)
ScanExceptionTexts == {ScanExcText(fault) : fault \in ScanFaults \ {"none"}}

(* C21: a request that met an unexpected failure is answered 500 with a fixed generic
   text that does not contain the text of the exception: a scan request that answered
   500 carries none of the texts its failures raise, any other request that answered
   500 carries one of the fixed texts. *)
C21_GenericInternalError ==
    last.resp.status = 500 =>
        IF last.op = "scan_image"
        THEN \A text \in ScanExceptionTexts : last.resp.detail # MsgScanFailed(text)
        ELSE last.resp.detail \in GenericMessages

----------------------------------------------------------------------------
(* The reset flow of one account with every request recorded: what was sent, what was
   answered and the row the request found *)

PwLongA == Rep("y", BcryptMaxBytes) \o <<"a">>

PwLongB == Rep("y", BcryptMaxBytes) \o <<"b">>

PwExact == Rep("y", BcryptMaxBytes)

PwLongC == Rep("y", BcryptMaxBytes - 1) \o <<"z", "a">>

AnsUpperTab == <<"\t", "B", "L", "U", "E">>

AnsBlu == <<"b", "l", "u">>

FlowAnswers == {AnsBlue, AnsBlueCased, AnsUpperTab, AnsRed, AnsBlu}

(* the answers the recorded account was registered with, by question index *)
RegisteredAnswer(question_index) == IF question_index = 0 THEN AnsBlueCased ELSE AnsBlue

FlowVerifyInputs ==
    {<<0, AnsBlue>>, <<0, AnsUpperTab>>, <<1, AnsBlueCased>>, <<2, AnsRed>>, <<1, AnsBlu>>, <<3, AnsBlue>>}

FlowPasswords == {PwPadded, PwLongA, PwLongB, PwShortPadded}

FlowLoginPasswords == {PwOld, PwPadded, strip(PwPadded), PwLongA, PwLongB, PwExact, PwLongC}

(* the token forgot_password hands out at t *)
ForgotTokenAt(email, t) == create_password_reset_token(email, ForgotTokenMinutes, t)

(* the tokens a client presents with an email in the recorded flow: what is stored,
   what Verify handed out, what forgot-password hands out now, a token of the other
   account and junk *)
FlowTokens(email) ==
    StoredTokens
        \cup {p[2] : p \in {q \in issued : q[1] = email}}
        \cup {ForgotTokenAt(email, now)}
        \cup {create_password_reset_token(e, VerifyTokenMinutes, now) : e \in Emails \ {email}}
        \cup {GarbageToken}

(* a recorded request: what was sent, the answer, and the row of the email before the
   request *)
FlowRequest(op, email, arg, resp, before) ==
    [op |-> op, email |-> email, arg |-> arg, resp |-> resp, before |-> before]

PasswordHistory(current, previous) == [current |-> current, previous |-> previous]

VerifyRecorded(email, question_index, answer) ==
    LET r == verify_security_answer_endpoint(users, now, email, question_index, answer, "none")
    IN  /\ users' = r.users
        /\ last' = FlowRequest("verify", email, <<question_index, answer>>, r.resp,
                               QueryByEmail(users, email))
        /\ issued' = IF r.resp.status = 200 THEN issued \cup {<<email, r.resp.token[1]>>} ELSE issued
        /\ UNCHANGED <<now, redeemed, pwhist, procs>>
        /\ UNCHANGED scanvars

(* pwhist follows the hash: a Redeem that answered 200 sets the new secret and keeps
   the one before; a Redeem that changed the hash and yet answered an error leaves no
   secret before it *)
RedeemRecorded(email, token, new_password, salt, fault) ==
    LET r == reset_password_security_questions(users, now, email, token, new_password, salt, fault)
        before == QueryByEmail(users, email)
        changed == before # Null /\ RowOf(r.users, email).password_hash # before[1].password_hash
    IN  /\ users' = r.users
        /\ last' = FlowRequest("redeem", email, <<token, new_password, salt, fault>>, r.resp, before)
        /\ redeemed' = IF r.resp.status = 200 THEN redeemed \cup {<<email, token>>} ELSE redeemed
        /\ pwhist' = IF r.resp.status = 200 THEN PasswordHistory(new_password, Some(pwhist.current))
                     ELSE IF changed THEN PasswordHistory(new_password, Null)
                     ELSE pwhist
        /\ UNCHANGED <<now, issued, procs>>
        /\ UNCHANGED scanvars

LoginRecorded(email, password) ==
    /\ last' = FlowRequest("login", email, password, login(users, now, email, password),
                           QueryByEmail(users, email))
    /\ UNCHANGED <<users, now, redeemed>>
    /\ UNCHANGED flowvars
    /\ UNCHANGED scanvars

(* the recorded account is registered, the other email has no row *)
FlowInit ==
    /\ users = register({}, RegisterPayload("ana@x.ph", QCity, AnsBlue), <<1, 1, 1, 1>>).users
    /\ now = 0
    /\ last = Request("start", "", Reply(200, ""))
    /\ redeemed = {}
    /\ scans = {}
    /\ uploads = {}
    /\ model_service = Null
    /\ uuids = 0
    /\ issued = {}
    /\ pwhist = PasswordHistory(PwOld, Null)
    /\ procs = <<>>

(* the token part of the flow: every kind of token, one acceptable password *)
FlowNext ==
    \/ Tick
    \/ \E in \in FlowVerifyInputs : VerifyRecorded("ana@x.ph", in[1], in[2])
    \/ VerifyRecorded("ben@x.ph", 0, AnsBlue)
    \/ \E token \in FlowTokens("ana@x.ph"), new_password \in {PwPadded, PwShortPadded} :
            RedeemRecorded("ana@x.ph", token, new_password, 1, "none")
    \/ \E token \in StoredTokens \cup {GarbageToken} :
            RedeemRecorded("ben@x.ph", token, PwPadded, 1, "none")
    \/ ForgotPassword("ana@x.ph")

FlowSpec == FlowInit /\ [][FlowNext]_vars

(* the password part of the flow at one instant: every kind of password, under every
   salt, with and without a failure after the commit *)
CredNext ==
    \/ VerifyRecorded("ana@x.ph", 0, AnsBlue)
    \/ \E token \in StoredTokens, new_password \in FlowPasswords, salt \in Salts,
          fault \in {"none", "refresh"} :
            RedeemRecorded("ana@x.ph", token, new_password, salt, fault)
    \/ \E password \in FlowLoginPasswords : LoginRecorded("ana@x.ph", password)

CredSpec == FlowInit /\ [][CredNext]_vars

----------------------------------------------------------------------------
(* Properties of the recorded flow *)

(* one letter, in either case *)
SameLetter(c, d) ==
    \/ c = d
    \/ c \in DOMAIN UpperToLower /\ UpperToLower[c] = d
    \/ d \in DOMAIN UpperToLower /\ UpperToLower[d] = c

(* s from its first to its last character that is not whitespace *)
Unpadded(s) ==
    LET solid == {i \in 1..Len(s) : s[i] \notin Whitespace}
    IN  IF solid = {} THEN <<>>
        ELSE SubSeq(s, CHOOSE i \in solid : \A k \in solid : i <= k,
                       CHOOSE j \in solid : \A k \in solid : k <= j)

DifferOnlyInCaseAndPadding(a, b) ==
    /\ Len(Unpadded(a)) = Len(Unpadded(b))
    /\ \A i \in 1..Len(Unpadded(a)) : SameLetter(Unpadded(a)[i], Unpadded(b)[i])

(* C22: answers that differ only in letter case and in surrounding whitespace verify
   against each other's hash under every salt, and a Verify request whose answer
   differs from the registered answer of its question only in that way is answered
   200 with a token. *)
C22_AnswerCaseInsensitive ==
    /\ \A a \in FlowAnswers, b \in FlowAnswers, salt \in Salts :
          DifferOnlyInCaseAndPadding(a, b)
              => verify_security_answer(a, hash_security_answer(b, salt))
    /\ ( /\ last.op = "verify"
         /\ last.before # Null
         /\ last.arg[1] \in {0, 1, 2}
         /\ DifferOnlyInCaseAndPadding(last.arg[2], RegisteredAnswer(last.arg[1])) )
       => (last.resp.status = 200 /\ last.resp.token # Null)

(* the answer registered as "blue" was given as " BlUE " and a token was handed out *)
C22_Witness ==
    /\ last.op = "verify"
    /\ last.arg = <<1, AnsBlueCased>>
    /\ RegisteredAnswer(1) = AnsBlue
    /\ last.resp.status = 200
    /\ last.resp.token # Null
    /\ RowOf(users, last.email).reset_token = last.resp.token

(* p and q are equal once each is cut to its first BcryptMaxBytes bytes *)
SameUpToMax(p, q) ==
    \A i \in 1..BcryptMaxBytes :
        /\ (i <= Len(p)) <=> (i <= Len(q))
        /\ i <= Len(p) => p[i] = q[i]

CheckedPasswords == FlowPasswords \cup FlowLoginPasswords

(* C23: verify_password(p, d) is true for a digest d of q, whichever salt it was made
   with, exactly when p and q are equal after the cut to BcryptMaxBytes bytes; two
   digests of one password made with different salts differ and both verify; the
   same holds of the stored hash of the account and the secret it was computed from,
   and login accepts exactly those passwords. *)
C23_VerifyPassword ==
    /\ \A p \in CheckedPasswords, q \in CheckedPasswords, s1 \in Salts, s2 \in Salts :
          /\ verify_password(p, hash_password(q, s1)) <=> SameUpToMax(p, q)
          /\ verify_password(q, hash_password(q, s1))
          /\ s1 # s2 => hash_password(q, s1) # hash_password(q, s2)
    /\ \A p \in CheckedPasswords :
          /\ verify_password(p, RowOf(users, "ana@x.ph").password_hash)
                <=> SameUpToMax(p, pwhist.current)
          /\ login(users, now, "ana@x.ph", p).status = 200 <=> SameUpToMax(p, pwhist.current)

(* the hash was computed from a secret one byte over the maximum, and a login with
   another secret that differs from it in that byte only was accepted *)
C23_Witness ==
    /\ last.op = "login"
    /\ last.arg = PwLongA
    /\ pwhist.current = PwLongB
    /\ last.resp.status = 200

(* the columns the reset flow writes *)
ResetColumns(u) == <<u.password_hash, u.reset_token, u.reset_token_expires>>

(* C24: a Verify or Redeem request that was answered with a 4xx status left the
   password hash, the reset token and its expiry of the row as it found them (and
   created no row where it found none); a token the row held unexpired before the
   request can still be redeemed after it. *)
C24_RefusedRequestKeepsToken ==
    (last.op \in {"verify", "redeem"} /\ last.resp.status \in 400..499) =>
        /\ last.before = Null => ~HasRow(users, last.email)
        /\ last.before # Null =>
              /\ HasRow(users, last.email)
              /\ ResetColumns(RowOf(users, last.email)) = ResetColumns(last.before[1])
              /\ ( /\ last.before[1].reset_token # Null
                   /\ last.before[1].reset_token_expires # Null
                   /\ last.before[1].reset_token_expires[1] >= now )
                 => RedeemOf(last.email, <<last.before[1].reset_token[1], PwPadded, 1, "none">>).resp.status = 200

(* a wrong answer was refused while the row held an unexpired token, which it still
   holds *)
C24_Witness ==
    /\ last.op = "verify"
    /\ last.resp.status = 400
    /\ last.resp.detail = MsgWrongAnswer
    /\ last.before # Null
    /\ last.before[1].reset_token # Null
    /\ last.before[1].reset_token_expires[1] >= now
    /\ RowOf(users, last.email).reset_token = last.before[1].reset_token

(* the tokens Verify handed out for the email *)
IssuedTo(email) == {p[2] : p \in {q \in issued : q[1] = email}}

(* Redeem with the token, an acceptable password and no failure would answer 200 *)
Redeemable(email, token) == RedeemOf(email, <<token, PwPadded, 1, "none">>).resp.status = 200

(* C25: at any time at most one token of a user is redeemable; right after a Verify
   request handed out a token t2, Redeem with any other token t1 that Verify handed
   out to the user before is answered 400 and changes nothing, while Redeem with t2
   is answered 200. *)
C25_OneRedeemableToken ==
    /\ \A email \in Emails : \A a \in FlowTokens(email), b \in FlowTokens(email) :
          (Redeemable(email, a) /\ Redeemable(email, b)) => a = b
    /\ (last.op = "verify" /\ last.resp.status = 200) =>
          /\ Redeemable(last.email, last.resp.token[1])
          /\ \A t1 \in IssuedTo(last.email) \ {last.resp.token[1]} :
                LET r == RedeemOf(last.email, <<t1, PwPadded, 1, "none">>)
                IN  r.resp.status = 400 /\ r.users = users

(* Verify has handed out a second, different token to the user *)
C25_Witness ==
    /\ last.op = "verify"
    /\ last.resp.status = 200
    /\ IssuedTo(last.email) \ {last.resp.token[1]} # {}
    /\ RowOf(users, last.email).reset_token = last.resp.token

(* C27: a Redeem request changes the password hash, or answers 200, only with a token
   Verify handed out for that email; every stored token is one Verify handed out for
   its row; and a token forgot-password hands out for an email, at any instant up to
   now, is not redeemable unless Verify handed out the very same token. *)
C27_OnlyVerifyTokensRedeem ==
    /\ ( /\ last.op = "redeem"
         /\ \/ last.resp.status = 200
            \/ /\ last.before # Null
               /\ RowOf(users, last.email).password_hash # last.before[1].password_hash )
       => last.arg[1] \in IssuedTo(last.email)
    /\ \A u \in users : u.reset_token # Null => u.reset_token[1] \in IssuedTo(u.email)
    /\ \A email \in Emails : \A t \in {i \in Instants : i <= now} :
          ForgotTokenAt(email, t) \notin IssuedTo(email) => ~Redeemable(email, ForgotTokenAt(email, t))

(* Redeem was refused for the token forgot-password hands out, while the row holds an
   unexpired token of Verify *)
C27_Witness ==
    /\ last.op = "redeem"
    /\ last.arg[1] = ForgotTokenAt(last.email, now)
    /\ last.arg[2] = PwPadded
    /\ last.resp.status = 400
    /\ HasRow(users, last.email)
    /\ RowOf(users, last.email).reset_token # Null
    /\ RowOf(users, last.email).reset_token_expires[1] >= now

(* C28, as claimed: once a Redeem of the account succeeded with a password, and until
   its hash changes again, login with that password as it was supplied is answered
   200, and login with the password before it is answered 401 whenever the two
   differ. *)
C28_LoginAfterRedeem ==
    pwhist.previous # Null =>
        /\ login(users, now, "ana@x.ph", pwhist.current).status = 200
        /\ pwhist.previous[1] # pwhist.current
              => login(users, now, "ana@x.ph", pwhist.previous[1]).status = 401

(* C28, amended: as above, login with the password before it being answered 401
   whenever the two differ within their first BcryptMaxBytes bytes. *)
C28_LoginAfterRedeemCut ==
    pwhist.previous # Null =>
        /\ login(users, now, "ana@x.ph", pwhist.current).status = 200
        /\ ~SameUpToMax(pwhist.previous[1], pwhist.current)
              => login(users, now, "ana@x.ph", pwhist.previous[1]).status = 401

(* after a Redeem with a padded password succeeded, a login with the password before
   it was refused and a login with the padded password as supplied would pass *)
C28_Witness ==
    /\ pwhist.previous # Null
    /\ pwhist.current = PwPadded
    /\ last.op = "login"
    /\ last.arg = pwhist.previous[1]
    /\ last.arg # PwPadded
    /\ last.resp.status = 401
    /\ login(users, now, "ana@x.ph", PwPadded).status = 200

----------------------------------------------------------------------------
(* Properties of the session check *)

(* the reset tokens create_password_reset_token hands out at t, with the time to live
   of either reset pathway *)
ResetTokensAt(t) ==
    {create_password_reset_token(email, minutes, t) :
        email \in Emails, minutes \in {VerifyTokenMinutes, ForgotTokenMinutes}}

(* C30: get_current_user answers a reset token with 401, and so does every endpoint
   behind it, which changes nothing: /users/me (read and update), /users/stats and
   the scan endpoints. *)
C30_ResetTokenIsNoSession ==
    \A token \in ResetTokensAt(now) :
        LET upload == Upload(PngType, Null, ImgLeaf)
            env == Env(FileKeras, RunHealthy, "none")
            payload == ScanPayload(Some("Leaf Blast"), Some(50000), Null)
            scanned == scan_image(users, scans, uploads, model_service, uuids, now, token, upload, env)
            saved == save_scan(users, scans, uuids, now, token, payload, "none")
            updated == update_profile(users, now, token, "Ana B.")
        IN  /\ get_current_user(users, now, token).exc = HTTPException(401, MsgNoBearerUser)
            /\ me(users, now, token).status = 401
            /\ updated.resp.status = 401 /\ updated.users = users
            /\ get_user_stats(users, scans, now, token).status = 401
            /\ scanned.resp.status = 401 /\ scanned.scans = scans /\ scanned.uploads = uploads
            /\ saved.resp.status = 401 /\ saved.scans = scans
            /\ get_scan_history(users, scans, now, token, 50, 0, Null, "date", <<>>).status = 401
            /\ get_unique_diseases(users, scans, now, token).status = 401
            /\ \A scan_id \in 1..MaxUuids :
                  /\ get_scan_image(users, scans, uploads, now, token, scan_id).status = 401
                  /\ LET deleted == delete_scan(users, scans, uploads, now, token, scan_id, "none")
                     IN  deleted.resp.status = 401 /\ deleted.scans = scans /\ deleted.uploads = uploads

(* a request that carried a reset token as bearer was refused: the token decoded, its
   subject matched no user id; rows of scans exist *)
C30_Witness ==
    /\ last.op = "save_scan"
    /\ last.resp.status = 401
    /\ last.resp.detail = MsgNoBearerUser
    /\ last.email = ""
    /\ scans # {}

----------------------------------------------------------------------------
(* Requests handled concurrently.  Every request runs in its own thread with its own
   database session: a query loads the committed row into the session, the handler
   works on what it loaded, and db.commit() writes to the committed table. *)

NumRequests == 2

RequestIds == 1..NumRequests

Idle == [op |-> "idle", pc |-> "idle"]

RedeemRequest(email, reset_token, new_password, salt) ==
    [op |-> "redeem", pc |-> "read", email |-> email, reset_token |-> reset_token,
     new_password |-> new_password, salt |-> salt, view |-> {}, pending |-> Null, resp |-> Null]

RegisterRequest(payload, salt) ==
    [op |-> "register", pc |-> "check", email |-> payload.email, payload |-> payload,
     salt |-> salt, view |-> {}, pending |-> Null, resp |-> Null]

Done(proc, resp) == [proc EXCEPT !.pc = "done", !.resp = Some(resp)]

(* the session's view of the table after the query by email *)
LoadByEmail(tbl, email) == {u \in tbl : u.email = email}

(* the flush of a changed row: UPDATE users SET password_hash, reset_token,
   reset_token_expires WHERE id = the row's id *)
UpdateResetColumns(tbl, row) ==
    {IF u.id = row.id
     THEN [u EXCEPT !.password_hash = row.password_hash, !.reset_token = row.reset_token,
                    !.reset_token_expires = row.reset_token_expires]
     ELSE u : u \in tbl}

(* faulty variant: the email column has no unique index *)
InsertUserUnchecked(tbl, row) == [ok |-> TRUE, users |-> tbl \cup {row}]

(* the flush of a new row: INSERT INTO users, refused by the unique index on email *)
InsertUser(tbl, row) ==
    IF \E u \in tbl : u.email = row.email
    THEN [ok |-> FALSE, users |-> tbl]
    ELSE [ok |-> TRUE, users |-> tbl \cup {row}]

Arrive(p, request) ==
    /\ procs[p].pc = "idle"
    /\ procs' = [procs EXCEPT ![p] = request]
    /\ UNCHANGED <<users, now, last, redeemed, issued, pwhist>>
    /\ UNCHANGED scanvars

(* reset_user_password up to the query: the password checks, then the row is loaded *)
RedeemRead(p) ==
    LET proc == procs[p]
    IN  /\ proc.op = "redeem" /\ proc.pc = "read"
        /\ procs' = [procs EXCEPT ![p] =
                        IF PasswordEmpty(proc.new_password)
                        THEN Done(proc, Reply(400, MsgPasswordEmpty))
                        ELSE IF PasswordTooShort(proc.new_password)
                        THEN Done(proc, Reply(400, MsgPasswordShort))
                        ELSE [proc EXCEPT !.pc = "check", !.view = LoadByEmail(users, proc.email)]]
        /\ UNCHANGED <<users, now, last, redeemed, issued, pwhist>>
        /\ UNCHANGED scanvars

(* the checks of the loaded row against the request and the clock *)
RedeemCheck(p) ==
    LET proc == procs[p]
        r == reset_password_security_questions(proc.view, now, proc.email, proc.reset_token,
                                               proc.new_password, proc.salt, "none")
    IN  /\ proc.op = "redeem" /\ proc.pc = "check"
        /\ procs' = [procs EXCEPT ![p] =
                        IF r.resp.status # 200 THEN Done(proc, r.resp)
                        ELSE [proc EXCEPT !.pc = "write"]]
        /\ UNCHANGED <<users, now, last, redeemed, issued, pwhist>>
        /\ UNCHANGED scanvars

(* the new hash is assigned and the token columns are cleared, in the session *)
RedeemWrite(p) ==
    LET proc == procs[p]
        r == reset_password_security_questions(proc.view, now, proc.email, proc.reset_token,
                                               proc.new_password, proc.salt, "none")
    IN  /\ proc.op = "redeem" /\ proc.pc = "write"
        /\ procs' = [procs EXCEPT ![p] =
                        [proc EXCEPT !.pc = "commit", !.pending = Some(RowOf(r.users, proc.email))]]
        /\ UNCHANGED <<users, now, last, redeemed, issued, pwhist>>
        /\ UNCHANGED scanvars

(* db.commit(): the flush and the commit, or an exception, the rollback and the 500 *)
RedeemCommit(p, ok) ==
    LET proc == procs[p]
        r == reset_password_security_questions(proc.view, now, proc.email, proc.reset_token,
                                               proc.new_password, proc.salt,
                                               IF ok THEN "none" ELSE "commit")
    IN  /\ proc.op = "redeem" /\ proc.pc = "commit"
        /\ users' = IF ok THEN UpdateResetColumns(users, proc.pending[1]) ELSE users
        /\ procs' = [procs EXCEPT ![p] = Done(proc, r.resp)]
        /\ UNCHANGED <<now, last, redeemed, issued, pwhist>>
        /\ UNCHANGED scanvars

(* register up to db.add: the validation and the existence check *)
RegisterCheck(p) ==
    LET proc == procs[p]
        r == register(users, proc.payload, <<proc.salt, proc.salt, proc.salt, proc.salt>>)
    IN  /\ proc.op = "register" /\ proc.pc = "check"
        /\ procs' = [procs EXCEPT ![p] =
                        IF r.resp.status # 201 THEN Done(proc, r.resp)
                        ELSE [proc EXCEPT !.pc = "commit", !.pending = Some(RowOf(r.users, proc.email))]]
        /\ UNCHANGED <<users, now, last, redeemed, issued, pwhist>>
        /\ UNCHANGED scanvars

(* db.add, db.commit: the insert, or the IntegrityError no handler catches *)
RegisterCommit(p) ==
    LET proc == procs[p]
        r == InsertUser(users, proc.pending[1])
    IN  /\ proc.op = "register" /\ proc.pc = "commit"
        /\ users' = r.users
        /\ procs' = [procs EXCEPT ![p] =
                        Done(proc, IF r.ok THEN Reply(201, proc.pending[1].id) ELSE Unhandled)]
        /\ UNCHANGED <<now, last, redeemed, issued, pwhist>>
        /\ UNCHANGED scanvars

(* the token Verify stored for the registered account at the start *)
RaceToken == create_password_reset_token("ana@x.ph", VerifyTokenMinutes, 0)

RaceRequests ==
    {RedeemRequest("ana@x.ph", RaceToken, PwPadded, 1),
     RedeemRequest("ana@x.ph", GarbageToken, PwPadded, 1),
     RedeemRequest("ana@x.ph", RaceToken, PwShortPadded, 1),
     RegisterRequest(RegisterPayload("ben@x.ph", QCity, AnsBlue), 1),
     RegisterRequest(RegisterPayload("ben@x.ph", QFood, AnsBlue), 1),
     RegisterRequest(RegisterPayload("ana@x.ph", QFood, AnsBlue), 1)}

(* one account is registered and holds the token of a successful Verify; no request
   is being handled *)
RaceInit ==
    /\ users = verify_security_answer_endpoint(
                   register({}, RegisterPayload("ana@x.ph", QCity, AnsBlue), <<1, 1, 1, 1>>).users,
                   0, "ana@x.ph", 0, AnsBlue, "none").users
    /\ now = 0
    /\ last = Request("start", "", Reply(200, ""))
    /\ redeemed = {}
    /\ scans = {}
    /\ uploads = {}
    /\ model_service = Null
    /\ uuids = 0
    /\ issued = {<<"ana@x.ph", RaceToken>>}
    /\ pwhist = PasswordHistory(PwOld, Null)
    /\ procs = [p \in RequestIds |-> Idle]

RaceNext ==
    \E p \in RequestIds :
        \/ \E request \in RaceRequests : Arrive(p, request)
        \/ RedeemRead(p)
        \/ RedeemCheck(p)
        \/ RedeemWrite(p)
        \/ \E ok \in BOOLEAN : RedeemCommit(p, ok)
        \/ RegisterCheck(p)
        \/ RegisterCommit(p)

RaceSpec == RaceInit /\ [][RaceNext]_vars

(* the request has been answered with the status *)
Answered(proc, status_code) ==
    proc.pc = "done" /\ proc.resp[1].status = status_code

(* C26: of two Redeem requests that carry the same token for the same email and are
   handled concurrently, at most one is answered 200. *)
C26_SingleUseUnderConcurrency ==
    \A p \in RequestIds, q \in RequestIds :
        ( /\ p # q
          /\ procs[p].op = "redeem" /\ procs[q].op = "redeem"
          /\ procs[p].email = procs[q].email
          /\ procs[p].reset_token = procs[q].reset_token )
        => ~(Answered(procs[p], 200) /\ Answered(procs[q], 200))

(* no two rows of the table share an email *)
NoSharedEmail == \A u \in users, v \in users : u.email = v.email => u = v

(* the columns a refused registration must leave alone *)
RegisteredColumns(u) ==
    <<u.password_hash, u.security_question_1, u.security_answer_1, u.security_question_2,
      u.security_answer_2, u.security_question_3, u.security_answer_3>>

(* a step that answers a register request for an email that has a row: the request
   fails, with 400 when the row is there at the existence check, no row is created
   and the row of the email keeps its hash, questions and answers *)
RegisterRefused ==
    \A p \in RequestIds :
        ( /\ procs[p].op = "register" /\ procs[p].pc # "done" /\ procs'[p].pc = "done"
          /\ HasRow(users, procs[p].email) )
        => /\ procs'[p].resp[1].status \in {400, 500}
           /\ procs[p].pc = "check" => procs'[p].resp[1] = Reply(400, MsgEmailTaken)
           /\ Cardinality(users') = Cardinality(users)
           /\ HasRow(users', procs[p].email)
           /\ RegisteredColumns(RowOf(users', procs[p].email))
                  = RegisteredColumns(RowOf(users, procs[p].email))

(* C29: under every interleaving of register requests no two rows share an email, and
   a register request for an email that has a row fails (400 when the existence check
   sees the row) without creating a row and without changing the row's password hash,
   security questions or answers. *)
C29_UniqueEmail == [](NoSharedEmail) /\ [][RegisterRefused]_vars

(* two register requests for one email both passed the existence check; one was
   answered 201 and the other failed at the commit, and the email has one row *)
C29_Witness ==
    \E p \in RequestIds, q \in RequestIds :
        /\ procs[p].op = "register" /\ procs[q].op = "register"
        /\ procs[p].email = procs[q].email
        /\ Answered(procs[p], 201)
        /\ procs[q].pc = "done" /\ procs[q].resp[1] = Unhandled
        /\ Cardinality(LoadByEmail(users, procs[p].email)) = 1

====
